---- MODULE Spec2Model ----
(***************************************************************************)
(* Verification model of the hermes-maps demo frontend (fknop/hermes).     *)
(*                                                                         *)
(* Spec       the job pollers usePollRouting: the effect-based hook        *)
(*            (useState/useEffect/setInterval) and the two React Query     *)
(*            hooks (refetchInterval), against a job server.               *)
(* SpecEffect the effect-based poller alone.                               *)
(* SpecQuery  the two React Query pollers alone.                           *)
(* SpecFetch  the useFetch hook: calls and their settlements.              *)
(* SpecRouting the useStopRouting / useStartRouting callbacks.             *)
(* SpecGeo    transformSolutionToGeoJson applied to bounded solutions.     *)
(* SpecGet    getSolution, getStatistics, getOperatorWeights applied to    *)
(*            every poll response.                                         *)
(* SpecHome   the home screen: start, end, algorithm and POST /route.      *)
(* SpecHomeFair SpecHome with the fairness of renders and effects.         *)
(* SpecJobScreen, SpecVrScreen  the Start / Stop controls and startRouting *)
(*            of the job screen and of the vehicle-routing screen.         *)
(* SpecBenchmark, SpecBenchmarkFetch  the two stopBenchmark callbacks.     *)
(* SpecProblem  getGeoJSONFromProblem applied to bounded problems.         *)
(* SpecSchedule the segments RoutingSchedule builds for bounded routes.    *)
(* SpecHidden the hiddenRoutes state of the vehicle-routing screens.       *)
(* SpecZoom   the zoom state of the Schedule component.                    *)
(* SpecEffectFair SpecEffect with the fairness of timers and requests.     *)
(* SpecPanel  the routes panel, the activities panel and hiddenRoutes.     *)
(* SpecScript the data-preparation scripts of data/optimizer.              *)
(* SpecMapbox useMapboxBounds on bounded coordinate lists.                 *)
(*                                                                         *)
(* A state update made in a promise continuation, a timer or an effect is  *)
(* queued: React renders it in a later step (Render, RenderScreen,         *)
(* RenderJourney, RenderZoom), so several continuations can run before one *)
(* render and the last value set wins.  A state update made in an event    *)
(* handler (a click, a pick, a resize) is rendered within its step; that   *)
(* render leaves queued updates out and they are applied, in the order     *)
(* they were made, by the later render.  The passive effects of a later    *)
(* render run in a step of their own (FlushEffect, FlushHomeEffect), and   *)
(* at the latest at the start of the next render; timers and handlers can  *)
(* run in between.  The passive effects of a render that an event handler  *)
(* caused run at the end of its commit.  A request is one message; the     *)
(* server is outside these sources, so its answer is any the protocol      *)
(* allows, chosen when the request settles, at any later time, in any      *)
(* order.                                                                  *)
(***************************************************************************)
EXTENDS Integers, Sequences, FiniteSets, TLC

\* ------------------------------------------------------------------ bounds
MaxPolls == 3        \* poll requests issued in one behaviour
MaxCalls == 3        \* calls of the function useFetch returns
MaxRoutingCalls == 2 \* stop/start calls
MaxServices == 2     \* Service activities of one route
MaxRoutes == 2       \* routes of a solution whose routes differ
MaxWideRoutes == 22  \* routes of a solution of one-stop routes
MaxHomeEvents == 4   \* picks and clicks on the home screen in one behaviour
MaxRetrievals == 2    \* picked suggestions whose retrieval is awaited at once
MaxUploads == 2       \* picked files whose text is awaited at once
MaxStartCalls == 2   \* start requests made in one behaviour
MaxStops == 3        \* stop requests stopBenchmark sends in one behaviour
MaxLocations == 3    \* locations of a problem
MaxVehicles == 2     \* vehicles of a problem
MaxActivities == 3   \* activities of a route handed to RoutingSchedule
MaxShownRoutes == 3  \* routes of a solution shown on the screen
MaxRouteCalls == 4   \* toggleRoute / hideOtherRoutes / showAllRoutes calls
MaxBaseZoom == 6     \* largest baseZoom a resize computes, in pixels per minute
MaxQueuedUpdates == 2 \* zoom updates queued behind a calc() not rendered yet
MaxFixtureServices == 2  \* services of a fixture
MaxFixtureLocations == 2 \* locations a fixture already has
MaxClicks == 3       \* clicks on route cards in one behaviour
MaxCoordinates == 3  \* coordinates handed to useMapboxBounds

\* ------------------------------------------------------- program constants
PollPendingMs == 2000   \* refetchInterval while the job is Pending
PollRunningMs == 600    \* refetchInterval otherwise
NoRefetch == 0          \* refetchInterval returning false: no timer

Jobs == {"j1", "j2"}
NoJob == "null"
JobStatuses == {"Pending", "Running", "Completed"}
Hooks == {"effect", "queryV1", "queryV2"}
QueryHooks == {"queryV1", "queryV2"}

\* What a hook holds before any response: useState(null) / query.state.data
\* undefined.  A stored response keeps the HTTP status (React Query hooks,
\* through fetchApi), the job status of its body ("absent" when the body has
\* none) and, as a ghost, the job the request was issued for.
NoData == [http |-> 0, status |-> "absent", job |-> NoJob]
Null == [status |-> "null", job |-> NoJob]

VARIABLES
    hook,       \* which usePollRouting is mounted
    mounted,    \* the component using the hook is mounted
    jobId,      \* the jobId prop
    data,       \* effect: the solution/response state; query: query.state.data
    error,      \* effect: the error state (HTTP status of the last failed poll)
    intervals,  \* effect: jobs captured by the live setInterval timers
    effDeps,    \* effect: the [isCompleted, jobId] of the render whose effect ran last
    qjob,       \* effect: the parent's state update React has not rendered yet
                \* (<<j>>: the jobId prop it brings, <<>>: none)
    qdata,      \* effect: setSolution(data) not rendered yet (<<d>> or <<>>)
    qerror,     \* effect: setError(message) not rendered yet (<<e>> or <<>>)
    delay,      \* query: the current refetchInterval result
    inflight,   \* poll requests issued and not yet settled
    polls,      \* number of poll requests issued so far
    seenCompleted, \* ghost: a Completed response was received for the current job
    seenFailed,    \* ghost: a failed poll was received for the current job
    polledNew,     \* ghost: a poll request was issued for jobId since it last changed
    \* useFetch
    loading,    \* useFetch: the loading state
    fdata,      \* useFetch: the data state
    fcalls,     \* useFetch: calls of the returned function still awaiting
    freturned,  \* what settled calls gave their callers
    fnext,      \* number of useFetch calls made so far
    \* useStopRouting / useStartRouting
    scalls,     \* stop/start calls still awaiting the server
    sresults,   \* how settled stop/start calls ended
    snext,      \* number of stop/start calls made so far
    \* transformSolutionToGeoJson
    gproblem,   \* the problem (services, locations) handed to the transform
    gsolution,  \* the solution (routes, unassigned_jobs) handed to it
    gout,       \* what each version of the transform returned
    gpc,        \* "input" before the transform has run, "done" after
    \* getSolution / getStatistics / getOperatorWeights
    presponse,  \* the poll response handed to the getters
    pout,       \* what the three getters returned
    ppc         \* "input" before the getters have run, "done" after

queueVars == <<qjob, qdata, qerror>>
pollVars == <<hook, mounted, jobId, data, error, intervals, effDeps, queueVars, delay,
              inflight, polls, seenCompleted, seenFailed, polledNew>>
fetchVars == <<loading, fdata, fcalls, freturned, fnext>>
stopVars == <<scalls, sresults, snext>>

geoVars == <<gproblem, gsolution, gout, gpc>>
getVars == <<presponse, pout, ppc>>

\* ---------------------------------------------------------- screen state
VARIABLES
    \* HomeScreen (routes/home.tsx, App.tsx)
    hstart,     \* the start state: an Address or null
    hend,       \* the end state: an Address or null
    halgorithm, \* the selectedAlgorithm state
    hdebug,     \* the includeDebugInfo state
    hqstart,    \* setStart(a) not rendered yet (<<a>> or <<>>)
    hqend,      \* setEnd(a) not rendered yet (<<a>> or <<>>)
    hsent,      \* bodies of the POST /route requests of the last step, in order
    hevents,    \* number of picks and clicks of the user so far
    hpending,   \* the effect on [start, end] of the last render has not run
    hretrievals, \* suggestions picked whose searchBox.retrieve is awaited
    \* VehicleRoutingScreen (routes/job/route.tsx, routes/vehicle-routing/route.tsx)
    screen,     \* which screen is shown: "job" or "vehicle-routing"
    input,      \* whether the input (the problem) is set
    qinput,     \* vehicle-routing: setInput(v) not rendered yet (<<v>> or <<>>)
    uploading,  \* file reads of the upload (file.text()) awaiting their result
    isStarting, \* job screen: isPending of the useStartJob mutation
    startCalls, \* start requests (startJob / postRouting) awaiting their answer
    startNext,  \* number of start requests made so far
    startResults, \* how the settled start requests ended
    restarts,   \* number of restartPolling() calls made so far
    \* usePostBenchmark (routes/benchmarks/route.tsx)
    bversion,   \* which stopBenchmark runs: "hook" (useStopRouting) or "fetch"
    bjobId,     \* the jobId state of the last render
    bqueue,     \* the jobId a setJobId has queued and React has not rendered yet
    bstops,     \* stop requests awaiting their answer
    bnext,      \* number of stop requests sent so far
    bresults    \* the answers the settled stop requests got

VARIABLES
    \* getGeoJSONFromProblem
    pgproblem,  \* the problem (locations, vehicles) handed to getGeoJSONFromProblem
    pgneighbors,  \* the neighbors argument: null or a list of location indices
    pgout,  \* what each version of getGeoJSONFromProblem returned
    pgpc  \* "input" before the function has run, "done" after

VARIABLES
    \* RoutingSchedule
    schResponse,  \* the poll response RoutingSchedule reads from the job context
    schedules,  \* the schedules RoutingSchedule built from it
    segmentIds,  \* the keys Schedule gave the segments of each row (getSegmentId)
    schPc  \* "input" before the schedules are built, "done" after

VARIABLES
    \* VehicleRoutingScreen: hiddenRoutes
    hiddenRoutes,  \* the hiddenRoutes state: a set of route indices
    ctxSolution,  \* the solution of the last poll response (nil, or its number of routes)
    hrLast,  \* ghost: the last call among toggleRoute, hideOtherRoutes, showAllRoutes
    hrBefore,  \* ghost: hiddenRoutes before that call
    hrCount  \* ghost: number of such calls made so far

VARIABLES
    \* Schedule: zoom
    zoomLevel,  \* the zoomLevel state, in quarters of a pixel per minute, or NullZoom
    baseZoom,   \* the baseZoom state, in quarters of a pixel per minute
    zqueue,     \* state updates made since the effect queued a calc() that is
                \* not rendered yet, in the order they were made
    zbase,      \* the zoomLevel state the updates of zqueue are applied to
    zlistening  \* the effect has run and added the resize listener

VARIABLES
    \* data/optimizer scripts
    sdata,  \* the files the scripts read: sample-2.json (transform.js), data.json
    sout,  \* what transform.js and the reshaping script emitted
    spc  \* "input" before the scripts have run, "done" after

VARIABLES
    \* routes and activities panels
    selectedRouteIndex,  \* the selectedRouteIndex state of the screen
    clicked,  \* ghost: index of the route card clicked last
    clicks  \* number of route card clicks so far

VARIABLES
    \* useMapboxBounds
    mcoordinates,  \* the coordinates handed to useMapboxBounds
    mbounds,  \* what useMapboxBounds returned
    mpc  \* "input" before the hook has run, "done" after

homeVars == <<hstart, hend, hqstart, hqend, halgorithm, hdebug, hsent, hevents, hpending,
             hretrievals>>
screenVars == <<screen, input, qinput, uploading, isStarting, startCalls, startNext, startResults,
                restarts>>

coreVars == <<pollVars, fetchVars, stopVars, geoVars, getVars>>
benchVars == <<bversion, bjobId, bqueue, bstops, bnext, bresults>>
problemVars == <<pgproblem, pgneighbors, pgout, pgpc>>
scheduleVars == <<schResponse, schedules, segmentIds, schPc>>
hiddenVars == <<hiddenRoutes, ctxSolution, hrLast, hrBefore, hrCount>>
zoomVars == <<zoomLevel, baseZoom, zqueue, zbase, zlistening>>
scriptVars == <<sdata, sout, spc>>
panelVars == <<selectedRouteIndex, clicked, clicks>>
mapboxVars == <<mcoordinates, mbounds, mpc>>
uiVars == <<homeVars, screenVars, benchVars, problemVars, scheduleVars, hiddenVars, zoomVars, scriptVars, panelVars, mapboxVars>>
vars == <<coreVars, uiVars>>

\* what each screen leaves alone
exceptHome == <<coreVars, screenVars, benchVars, problemVars, scheduleVars, hiddenVars, zoomVars, scriptVars, panelVars, mapboxVars>>
exceptScreen == <<fetchVars, stopVars, geoVars, getVars, homeVars, benchVars, problemVars, scheduleVars, hiddenVars, zoomVars, scriptVars, panelVars, mapboxVars>>
exceptBench == <<coreVars, homeVars, screenVars, problemVars, scheduleVars, hiddenVars, zoomVars, scriptVars, panelVars, mapboxVars>>
exceptProblem == <<coreVars, homeVars, screenVars, benchVars, scheduleVars, hiddenVars, zoomVars, scriptVars, panelVars, mapboxVars>>
exceptSchedule == <<coreVars, homeVars, screenVars, benchVars, problemVars, hiddenVars, zoomVars, scriptVars, panelVars, mapboxVars>>
exceptHidden == <<coreVars, homeVars, screenVars, benchVars, problemVars, scheduleVars, zoomVars, scriptVars, panelVars, mapboxVars>>
exceptZoom == <<coreVars, homeVars, screenVars, benchVars, problemVars, scheduleVars, hiddenVars, scriptVars, panelVars, mapboxVars>>
exceptScript == <<coreVars, homeVars, screenVars, benchVars, problemVars, scheduleVars, hiddenVars, zoomVars, panelVars, mapboxVars>>
exceptPanel == <<coreVars, homeVars, screenVars, benchVars, problemVars, scheduleVars, hiddenVars, zoomVars, scriptVars, mapboxVars>>
exceptMapbox == <<coreVars, homeVars, screenVars, benchVars, problemVars, scheduleVars, hiddenVars, zoomVars, scriptVars, panelVars>>

\* toString() of a non-negative integer: its decimal digits, most significant
\* first (Number.prototype.toString, template-literal interpolation).
Digit(d) == <<"0", "1", "2", "3", "4", "5", "6", "7", "8", "9">>[d + 1]
RECURSIVE toString(_)
toString(n) == IF n < 10 THEN <<Digit(n)>> ELSE toString(n \div 10) \o <<Digit(n % 10)>>

\* The parts of the model a specification leaves at rest.
NoBody == [http |-> 0, call |-> 0]
IdlePoll ==
    /\ hook = "effect"
    /\ mounted = FALSE
    /\ jobId = NoJob
    /\ data = NoData
    /\ error = 0
    /\ intervals = {}
    /\ effDeps = <<FALSE, NoJob>>
    /\ qjob = <<>>
    /\ qdata = <<>>
    /\ qerror = <<>>
    /\ delay = NoRefetch
    /\ inflight = {}
    /\ polls = 0
    /\ seenCompleted = FALSE
    /\ seenFailed = FALSE
    /\ polledNew = FALSE
IdleFetch ==
    /\ loading = FALSE
    /\ fdata = NoBody
    /\ fcalls = {}
    /\ freturned = {}
    /\ fnext = 0
IdleStop ==
    /\ scalls = {}
    /\ sresults = {}
    /\ snext = 0
NoResult == [threw |-> FALSE, assigned |-> <<>>, unassigned |-> <<>>]
IdleGeo ==
    /\ gproblem = [services |-> <<>>, locations |-> <<>>]
    /\ gsolution = [routes |-> <<>>, unassigned_jobs |-> <<>>]
    /\ gout = [vr |-> NoResult, job |-> NoResult]
    /\ gpc = "idle"
IdleGet ==
    /\ presponse = [nil |-> "null", status |-> "Pending", solution |-> "absent",
                    statistics |-> "absent", weights |-> "absent"]
    /\ pout = [solution |-> "null", statistics |-> "null", weights |-> "null"]
    /\ ppc = "idle"

\* null in the start / end state
NoAddress == [address |-> <<>>, coordinates |-> [lat |-> 0, lon |-> 0], id |-> 0]
NoRouteBody == [start |-> [lat |-> 0, lon |-> 0], end |-> [lat |-> 0, lon |-> 0],
                include_debug_info |-> FALSE, algorithm |-> "none"]
IdleHome ==
    /\ hstart = NoAddress
    /\ hend = NoAddress
    /\ halgorithm = "Dijkstra"
    /\ hdebug = FALSE
    /\ hqstart = <<>>
    /\ hqend = <<>>
    /\ hsent = <<>>
    /\ hevents = 0
    /\ hpending = FALSE
    /\ hretrievals = {}
IdleScreen ==
    /\ screen = "job"
    /\ input = FALSE
    /\ qinput = <<>>
    /\ uploading = 0
    /\ isStarting = FALSE
    /\ startCalls = {}
    /\ startNext = 0
    /\ startResults = {}
    /\ restarts = 0
IdleBench ==
    /\ bversion = "hook"
    /\ bjobId = NoJob
    /\ bqueue = <<>>
    /\ bstops = {}
    /\ bnext = 0
    /\ bresults = {}
NoProblemGeoJson == [job |-> [locations |-> <<>>, depots |-> <<>>], vr |-> [points |-> <<>>]]
IdleProblem ==
    /\ pgproblem = [locations |-> <<>>, vehicles |-> <<>>]
    /\ pgneighbors = [nil |-> TRUE, ids |-> {}]
    /\ pgout = NoProblemGeoJson
    /\ pgpc = "idle"
IdleSchedule ==
    /\ schResponse = [hasSolution |-> FALSE, routes |-> <<>>]
    /\ schedules = <<>>
    /\ segmentIds = <<>>
    /\ schPc = "idle"
NoSolution == [nil |-> TRUE, routes |-> 0]
NoRouteCall == [op |-> "none", route |-> 0]
IdleHidden ==
    /\ hiddenRoutes = {}
    /\ ctxSolution = NoSolution
    /\ hrLast = NoRouteCall
    /\ hrBefore = {}
    /\ hrCount = 0
\* zoomLevel null
NullZoom == -1
IdleZoom ==
    /\ zoomLevel = NullZoom
    /\ baseZoom = 12
    /\ zqueue = <<>>
    /\ zbase = NullZoom
    /\ zlistening = FALSE
NoFixture ==
    [sample |-> [vehicles |-> <<>>, services |-> <<>>],
     data |-> [services |-> <<>>, locations |-> <<>>]]
NoScriptOutput ==
    [transform |-> [locations |-> <<>>, vehicles |-> <<>>, services |-> <<>>,
                    from_points |-> <<>>, to_points |-> <<>>],
     reshape |-> [locations |-> <<>>, services |-> <<>>]]
IdleScript ==
    /\ sdata = NoFixture
    /\ sout = NoScriptOutput
    /\ spc = "idle"
\* useState<number | null>(null): no route selected
NullIndex == -1
IdlePanel ==
    /\ selectedRouteIndex = NullIndex
    /\ clicked = NullIndex
    /\ clicks = 0
\* return undefined
Undefined == [defined |-> FALSE, box |-> <<>>]
IdleMapbox ==
    /\ mcoordinates = <<>>
    /\ mbounds = Undefined
    /\ mpc = "idle"
IdleUi == IdleHome /\ IdleScreen /\ IdleBench /\ IdleProblem /\ IdleSchedule /\ IdleHidden /\ IdleZoom /\ IdleScript /\ IdlePanel /\ IdleMapbox

\* ---------------------------------------------------------------- helpers
isNil(j) == j = NoJob

\* solution?.status === 'Completed'
IsCompleted(d) == d.status = "Completed"

\* A poll request in flight: the job it polls and what issued it (the effect
\* body or the first fetch of a query: "mount"; a timer: "tick"; refetch).
\* Requests for the same job from the same source are interchangeable; id
\* (the lowest number free among them) tells them apart, and the one with
\* the highest id stands for any of them when one settles.
Alike(m, j, src) == m.job = j /\ m.src = src
FreeId(j, src) ==
    CHOOSE i \in 1..(MaxPolls + 1) :
        /\ \A m \in inflight : Alike(m, j, src) => m.id # i
        /\ \A k \in 1..(i - 1) : \E m \in inflight : Alike(m, j, src) /\ m.id = k
Request(j, src) == [id |-> FreeId(j, src), job |-> j, src |-> src]

\* The answers a request can get when it settles: a job status (the routing
\* server is outside these sources, so any status can follow any other), an
\* HTTP error, or no answer at all (fetch rejects).
Outcomes(m) ==
    { [thrown |-> FALSE, http |-> 500, status |-> "absent"],
      [thrown |-> TRUE, http |-> 0, status |-> "absent"] }
    \cup (IF m.job \in Jobs
          THEN { [thrown |-> FALSE, http |-> 200, status |-> st] : st \in JobStatuses }
          ELSE {})

\* the request m settled with the answer o
Settled(m, o) ==
    [job |-> m.job, src |-> m.src, thrown |-> o.thrown, http |-> o.http,
     status |-> o.status]

\* run() fetches whatever is already in flight; the model issues no request
\* once MaxPolls have been issued.
CanPoll == polls < MaxPolls

\* ------------------------------------------------------ effect-based hook
\* useEffect body: `if (isCompleted || isNil(jobId)) return`
EffectPolls(done, j) == ~(done \/ isNil(j))

\* the cleanup returned by the effect: clearInterval(interval)
Cleanup_NoClear(ivs, j) == ivs
Cleanup(ivs, j) == ivs \ {j}

\* run(): the solution state after the continuation of the settled request
\* m, d being the state before it: setSolution(data) for an answer below 400
RunResult(d, m) ==
    IF m.thrown THEN d
    ELSE IF m.http >= 400 THEN d
    ELSE [http |-> 200, status |-> m.status, job |-> m.job]

\* run(): setError(`Failed ${response.status}`)
RunError(e, m) == IF ~m.thrown /\ m.http >= 400 THEN m.http ELSE e

\* the state updates React has queued and not rendered yet
Queued == qjob # <<>> \/ qdata # <<>> \/ qerror # <<>>

\* run(): whether the continuation of the settled request m queues a state
\* update.  A rejected fetch ends in catch { console.error }: no update.
\* setSolution(data) stores a new object.  setError of the message already
\* held, with nothing else queued, may be dropped by React at once or be
\* queued and rendered once more.
RunRenders(e, m) ==
    IF m.thrown THEN {FALSE}
    ELSE IF m.http >= 400 /\ RunError(e, m) = e /\ ~Queued THEN {TRUE, FALSE}
    ELSE {TRUE}

\* the dependency array of the effect: [isCompleted, jobId]
Deps(d, j) == <<IsCompleted(d), j>>

\* the last render changed the dependencies and its passive effects (the
\* cleanup of the previous effect, then the effect body) have not run yet
EffectPending == hook = "effect" /\ mounted /\ effDeps # Deps(data, jobId)

\* React runs the pending passive effects of the last render, if any: the
\* previous effect's cleanup (clearInterval), then the effect body (early
\* return, or setInterval and run(), which issues a request).
\* `ok` is the bound of the model on the requests issued.
EffectRun ==
    IF ~EffectPending
    THEN [intervals |-> intervals, inflight |-> inflight, polls |-> polls,
          deps |-> effDeps, ok |-> TRUE]
    ELSE IF EffectPolls(IsCompleted(data), jobId)
    THEN [intervals |-> Cleanup(intervals, effDeps[2]) \cup {jobId},
          inflight |-> inflight \cup {Request(jobId, "mount")},
          polls |-> polls + 1,
          deps |-> Deps(data, jobId), ok |-> CanPoll]
    ELSE [intervals |-> Cleanup(intervals, effDeps[2]), inflight |-> inflight,
          polls |-> polls, deps |-> Deps(data, jobId), ok |-> TRUE]

\* React runs the pending passive effects of the last render, as it does
\* at the start of every render
Flushed ==
    LET s == EffectRun
    IN /\ s.ok
       /\ intervals' = s.intervals
       /\ inflight' = s.inflight
       /\ polls' = s.polls
       /\ effDeps' = s.deps

\* what the effect-based hook returns: { solution } / { response }
ExposedEffect(d) == IF d = NoData THEN Null ELSE [status |-> d.status, job |-> d.job]

\* ----------------------------------------------------- React Query hooks
\* fetchApi: `return { status: response.status, data, headers }`, whatever
\* the status; a rejected fetch leaves query.state.data as it was.
fetchApi(d, m) ==
    IF m.thrown THEN d ELSE [http |-> m.http, status |-> m.status, job |-> m.job]

\* job/usePollRouting.ts: refetchInterval
refetchIntervalV1_Swapped(d) ==
    IF d.status = "Pending" THEN PollRunningMs
    ELSE IF d.status = "Completed" THEN NoRefetch ELSE PollPendingMs
refetchIntervalV1(d) ==
    IF d.status = "Pending" THEN PollPendingMs
    ELSE IF d.status = "Completed" THEN NoRefetch ELSE PollRunningMs

\* the later usePollRouting (geojson option): refetchInterval
refetchIntervalV2(d) ==
    IF d.http # 200 THEN NoRefetch
    ELSE IF d.status = "Pending" THEN PollPendingMs
    ELSE IF d.status = "Completed" THEN NoRefetch ELSE PollRunningMs

refetchInterval(h, d) ==
    IF h = "queryV1" THEN refetchIntervalV1(d) ELSE refetchIntervalV2(d)

\* `enabled: !isNil(jobId)`; the first hook takes a jobId that is never null
enabled(h, j) == ~isNil(j)

\* `response: data?.data ?? null`
ExposedV1(d) == IF d = NoData THEN Null ELSE [status |-> d.status, job |-> d.job]
\* `response: response?.status === 200 ? response.data : null`
ExposedV2(d) == IF d.http = 200 THEN [status |-> d.status, job |-> d.job] ELSE Null

\* the response (or solution) the mounted hook hands to its component
Exposed ==
    IF hook = "effect" THEN ExposedEffect(data)
    ELSE IF hook = "queryV1" THEN ExposedV1(data) ELSE ExposedV2(data)

\* ---------------------------------------------------------------- actions
Failed(m) == m.thrown \/ m.http >= 400

\* ghost: after this step, a poll request has been issued for the jobId of
\* the hook since that jobId was set
PolledSinceChange ==
    \/ jobId' = jobId /\ polledNew
    \/ \E m \in inflight' \ inflight : m.job = jobId'

\* the jobId prop the queued updates will bring
QueuedJobId == IF qjob # <<>> THEN qjob[1] ELSE jobId

\* The parent's job id changes (a job was posted, a benchmark started or
\* stopped).  For the effect-based hook the change is a state update of the
\* parent made in a promise continuation (useFetch's setData, the benchmark
\* screen's setJobId): it is queued, and React renders it later.  The query
\* hooks observe another query at once.
SetJobIdPoll(j) ==
    /\ mounted
    /\ hook = "queryV1" => j \in Jobs
    /\ IF hook = "effect"
       THEN /\ qjob' = <<j>>
            /\ UNCHANGED <<jobId, data, delay, intervals, effDeps, inflight, polls,
                           seenCompleted, seenFailed, qdata, qerror>>
       ELSE /\ j # jobId
            /\ jobId' = j
            /\ seenCompleted' = FALSE
            /\ seenFailed' = FALSE
            /\ data' = NoData
            /\ delay' = refetchInterval(hook, NoData)
            /\ UNCHANGED <<intervals, effDeps, queueVars>>
            /\ IF enabled(hook, j)
               THEN /\ polls < MaxPolls
                    /\ inflight' = {Request(j, "mount")}
                    /\ polls' = polls + 1
               ELSE /\ inflight' = {}
                    /\ polls' = polls
    /\ polledNew' = PolledSinceChange
    /\ UNCHANGED <<hook, mounted, error>>

SetJobId(j) ==
    /\ j # QueuedJobId
    /\ SetJobIdPoll(j)
    /\ UNCHANGED <<fetchVars, stopVars, geoVars, getVars, uiVars>>

\* the poller's part of a render of the queued updates: React first runs
\* the pending passive effects of the previous render, then renders the
\* component with every update queued so far (the last value a state was
\* given wins); the passive effects of this render are left pending
RenderQueued ==
    /\ Flushed
    /\ jobId' = QueuedJobId
    /\ data' = IF qdata # <<>> THEN qdata[1] ELSE data
    /\ error' = IF qerror # <<>> THEN qerror[1] ELSE error
    /\ qjob' = <<>>
    /\ qdata' = <<>>
    /\ qerror' = <<>>
    /\ seenCompleted' = (seenCompleted /\ jobId' = jobId)
    /\ seenFailed' = (seenFailed /\ jobId' = jobId)
    /\ polledNew' = PolledSinceChange
    /\ UNCHANGED <<hook, mounted, delay>>

\* React renders the queued updates of the effect-based hook and its parent,
\* in a task after the continuations that queued them
Render ==
    /\ hook = "effect"
    /\ mounted
    /\ Queued
    /\ RenderQueued
    /\ UNCHANGED <<fetchVars, stopVars, geoVars, getVars, uiVars>>

\* The component unmounts: effect cleanup / the query observer is removed.
Unmount ==
    /\ mounted
    /\ mounted' = FALSE
    /\ IF hook = "effect"
       THEN /\ LET s == EffectRun
               IN /\ s.ok
                  /\ intervals' = Cleanup(s.intervals, s.deps[2])
                  /\ inflight' = s.inflight
                  /\ polls' = s.polls
                  /\ effDeps' = s.deps
            /\ delay' = delay
            /\ qjob' = <<>>
            /\ qdata' = <<>>
            /\ qerror' = <<>>
       ELSE /\ inflight' = {}
            /\ delay' = NoRefetch
            /\ UNCHANGED <<intervals, effDeps, polls, queueVars>>
    /\ UNCHANGED <<hook, jobId, data, error, seenCompleted, seenFailed>>
    /\ polledNew' = PolledSinceChange
    /\ UNCHANGED <<fetchVars, stopVars, geoVars, getVars, uiVars>>

\* the poller's part of a render that leaves jobId and the solution as they
\* are (the render of a click elsewhere on the screen, which leaves the
\* updates queued by promise continuations for their own render): React
\* starts the render by running the pending passive effects
RenderPoll ==
    /\ Flushed
    /\ UNCHANGED <<hook, mounted, jobId, data, error, delay, seenCompleted,
                   seenFailed, queueVars>>
    /\ polledNew' = PolledSinceChange

\* React runs the passive effects of the last render of the effect-based
\* hook, in a task of their own after the render: a timer can fire in between.
FlushEffect ==
    /\ EffectPending
    /\ RenderPoll
    /\ UNCHANGED <<fetchVars, stopVars, geoVars, getVars, uiVars>>

\* A setInterval timer of the effect-based hook fires: run().
Tick(j) ==
    /\ hook = "effect"
    /\ j \in intervals
    /\ CanPoll
    /\ inflight' = inflight \cup {Request(j, "tick")}
    /\ polls' = polls + 1
    /\ UNCHANGED <<hook, mounted, jobId, data, error, intervals, effDeps, delay,
                   seenCompleted, seenFailed, queueVars>>
    /\ polledNew' = PolledSinceChange
    /\ UNCHANGED <<fetchVars, stopVars, geoVars, getVars, uiVars>>

\* The refetch timer of a React Query hook fires; one fetch per query at a time.
QueryTick ==
    /\ hook \in QueryHooks
    /\ mounted
    /\ enabled(hook, jobId)
    /\ delay # NoRefetch
    /\ inflight = {}
    /\ polls < MaxPolls
    /\ inflight' = {Request(jobId, "tick")}
    /\ polls' = polls + 1
    /\ UNCHANGED <<hook, mounted, jobId, data, error, intervals, effDeps, delay,
                   seenCompleted, seenFailed, queueVars>>
    /\ polledNew' = PolledSinceChange
    /\ UNCHANGED <<fetchVars, stopVars, geoVars, getVars, uiVars>>

\* restartPolling(): refetch() cancels the fetch in flight and fetches again.
refetch ==
    /\ hook \in QueryHooks
    /\ mounted
    /\ ~isNil(jobId)
    /\ polls < MaxPolls
    /\ inflight' = {Request(jobId, "refetch")}
    /\ polls' = polls + 1
    /\ seenCompleted' = FALSE
    /\ seenFailed' = FALSE
    /\ UNCHANGED <<hook, mounted, jobId, data, error, intervals, effDeps, delay,
                   queueVars>>
    /\ polledNew' = PolledSinceChange

\* restartPolling is the query's refetch
RestartPolling ==
    /\ refetch
    /\ UNCHANGED <<fetchVars, stopVars, geoVars, getVars, uiVars>>

\* The poll request m settles with the answer o.  Effect-based hook: the
\* rest of run() after its awaits, which queues setSolution(data) or
\* setError(message), or only logs a rejected fetch; React renders later
\* (Render), so the continuations of several requests can run before one
\* render.  Updates of an unmounted component are dropped.  Query hooks: the
\* query stores what fetchApi returned.
Deliver(m, o) ==
    LET r == Settled(m, o)
    IN
    /\ m \in inflight
    /\ \A x \in inflight : Alike(x, m.job, m.src) => x.id <= m.id
    /\ o \in Outcomes(m)
    /\ inflight' = inflight \ {m}
    /\ IF hook = "effect"
       THEN /\ \E renders \in RunRenders(error, r) :
                 IF mounted /\ renders
                 THEN /\ qdata' = IF r.http >= 400 THEN qdata
                                   ELSE <<RunResult(data, r)>>
                      /\ qerror' = IF r.http >= 400 THEN <<RunError(error, r)>>
                                    ELSE qerror
                 ELSE UNCHANGED <<qdata, qerror>>
            /\ UNCHANGED <<data, delay>>
       ELSE /\ data' = fetchApi(data, r)
            /\ delay' = refetchInterval(hook, fetchApi(data, r))
            /\ UNCHANGED <<qdata, qerror>>
    /\ seenCompleted' =
          (seenCompleted \/ (mounted /\ r.job = jobId /\ ~Failed(r)
                                /\ r.status = "Completed"))
    /\ seenFailed' = (seenFailed \/ (mounted /\ r.job = jobId /\ Failed(r)))
    /\ UNCHANGED <<hook, mounted, jobId, error, intervals, effDeps, polls, qjob>>
    /\ polledNew' = PolledSinceChange
    /\ UNCHANGED <<fetchVars, stopVars, geoVars, getVars, uiVars>>

\* After construction: the effect-based hook and the later query hook start
\* without a job; the first query hook starts on a job, its first fetch issued.
InitPoll ==
    /\ hook \in Hooks
    /\ mounted = TRUE
    /\ data = NoData
    /\ error = 0
    /\ intervals = {}
    /\ effDeps = <<FALSE, NoJob>>
    /\ qjob = <<>>
    /\ qdata = <<>>
    /\ qerror = <<>>
    /\ seenCompleted = FALSE
    /\ seenFailed = FALSE
    /\ polledNew = (hook = "queryV1")
    /\ IF hook = "queryV1"
       THEN /\ jobId \in Jobs
            /\ polls = 1
            /\ inflight = {[id |-> 1, job |-> jobId, src |-> "mount"]}
            /\ delay = refetchInterval(hook, NoData)
       ELSE /\ jobId = NoJob
            /\ polls = 0
            /\ inflight = {}
            /\ delay = IF hook = "effect" THEN NoRefetch
                       ELSE refetchInterval(hook, NoData)

Init == InitPoll /\ IdleFetch /\ IdleStop /\ IdleGeo /\ IdleGet /\ IdleUi

Next ==
    \/ \E j \in Jobs \cup {NoJob} : SetJobId(j)
    \/ Unmount
    \/ Render
    \/ FlushEffect
    \/ \E j \in Jobs : Tick(j)
    \/ QueryTick
    \/ RestartPolling
    \/ \E m \in inflight : \E o \in Outcomes(m) : Deliver(m, o)

Spec == Init /\ [][Next]_vars

\* The effect-based hook alone, and the React Query hooks alone.
InitEffect == Init /\ hook = "effect"

NextEffect ==
    \/ \E j \in Jobs \cup {NoJob} : SetJobId(j)
    \/ Unmount
    \/ Render
    \/ FlushEffect
    \/ \E j \in Jobs : Tick(j)
    \/ \E m \in inflight : \E o \in Outcomes(m) : Deliver(m, o)

SpecEffect == InitEffect /\ [][NextEffect]_vars

\* The effect-based hook with its scheduling: React runs pending effects, a
\* queued update is rendered, a live setInterval timer fires again and again,
\* a request in flight settles.  The parent's renders with another jobId and
\* the unmount are the user's.
FairEffect ==
    /\ WF_vars(Render)
    /\ WF_vars(FlushEffect)
    /\ WF_vars(\E j \in Jobs : Tick(j))
    /\ WF_vars(\E m \in inflight : \E o \in Outcomes(m) : Deliver(m, o))

SpecEffectFair == InitEffect /\ [][NextEffect]_vars /\ FairEffect

InitQuery == Init /\ hook \in QueryHooks

NextQuery ==
    \/ \E j \in Jobs \cup {NoJob} : SetJobId(j)
    \/ Unmount
    \/ QueryTick
    \/ RestartPolling
    \/ \E m \in inflight : \E o \in Outcomes(m) : Deliver(m, o)

SpecQuery == InitQuery /\ [][NextQuery]_vars


\* ------------------------------------------------------- poller properties
\* the poll requests a step issues
NewPolls == inflight' \ inflight

\* C1: once a Completed response has been received for the current job, no
\* further poll request is issued for that job, unless polling is restarted
\* through restartPolling.
C1_NoPollAfterCompleted ==
    [][seenCompleted =>
          \A m \in NewPolls : m.job # jobId \/ m.src = "refetch"]_vars

\* C2 as stated: the delay depends only on the last received job status:
\* 2000 ms for Pending, 600 ms for Running or before any response, no next
\* poll for Completed.
C2_DelayByJobStatusOnly ==
    (hook \in QueryHooks /\ mounted) =>
        /\ data = NoData => delay = 600
        /\ data.status = "Pending" => delay = 2000
        /\ data.status = "Running" => delay = 600
        /\ data.status = "Completed" => delay = 0

\* C2 amended: the delay depends only on the last stored response.  In the
\* first hook: 2000 ms when its job status is Pending, none when Completed,
\* 600 ms otherwise (Running, no response yet, a body without job status).
\* In the later hook the same holds of a response with HTTP status 200, and
\* there is no next poll before any response and after a non-200 response.
C2_DelayByLastResponse ==
    (hook \in QueryHooks /\ mounted) =>
        IF hook = "queryV2" /\ data.http # 200 THEN delay = 0
        ELSE /\ data.status = "Pending" => delay = 2000
             /\ data.status = "Completed" => delay = 0
             /\ data.status \notin {"Pending", "Completed"} => delay = 600

C2_Witness ==
    /\ hook = "queryV1"
    /\ mounted
    /\ data.http = 200
    /\ data.status = "Pending"
    /\ delay = 2000

\* C3: after a poll request that ended with an HTTP error status or a thrown
\* fetch, no further poll request is issued for that job.
C3_NoPollAfterFailure ==
    [][seenFailed =>
          \A m \in NewPolls : m.job # jobId \/ m.src = "refetch"]_vars

\* C4 as stated: a failed poll leaves the response the hook exposes unchanged.
C4_FailedPollKeepsResponse ==
    [][\A m \in inflight : \A o \in Outcomes(m) :
          (Deliver(m, o) /\ Failed(o)) => Exposed' = Exposed]_vars

\* C7: once the effect cleanup has run (unmount, or another jobId), no timer
\* tick issues a poll request for the previous jobId: every request a tick
\* issues when no effect is pending is for the jobId of the mounted hook.
C7_NoTickForPreviousJob ==
    [][\A m \in NewPolls :
          (m.src = "tick" /\ ~EffectPending) => (mounted /\ m.job = jobId)]_vars

\* the hook went from one polled job to another: the request the effect of
\* the previous jobId issued is still in flight, the cleanup has cleared that
\* job's interval, and the timer of the new job has ticked since
C7_Witness ==
    /\ hook = "effect"
    /\ mounted
    /\ ~EffectPending
    /\ jobId \in Jobs
    /\ intervals = {jobId}
    /\ \E m \in inflight : m.src = "tick" /\ m.job = jobId
    /\ \E m \in inflight : m.src = "mount" /\ m.job \in Jobs \ {jobId}


\* ================================================================ useFetch
\* What the server can do with one request: answer with a status and a body
\* that is JSON or not, or not answer at all (fetch rejects).
HttpStatuses == {200, 204, 400, 404, 500}
FetchAnswers ==
    {[thrown |-> FALSE, http |-> h, json |-> b] : h \in HttpStatuses, b \in BOOLEAN}
        \cup {[thrown |-> TRUE, http |-> 0, json |-> FALSE]}

\* the body of an answer, parsed: it carries, as ghosts, the status it came
\* with and the call it answers
Body(c, a) == [http |-> a.http, call |-> c]

\* the callback of useFetch up to its await: setLoading(true), fetch(url, ...)
FetchCall ==
    /\ fnext < MaxCalls
    /\ loading' = TRUE
    /\ fnext' = fnext + 1
    /\ fcalls' = fcalls \cup {fnext + 1}
    /\ UNCHANGED <<fdata, freturned>>
    /\ UNCHANGED <<pollVars, stopVars, geoVars, getVars, uiVars>>

\* whether the try block reaches setData: fetch resolved and response.json()
\* parsed the body
FetchStores(a) == ~a.thrown /\ a.json

\* the rest of the callback: response.json(), setData(json), return json;
\* finally setLoading(false)
FetchSettle(c, a) ==
    /\ c \in fcalls
    /\ fcalls' = fcalls \ {c}
    /\ fdata' = IF FetchStores(a) THEN Body(c, a) ELSE fdata
    /\ freturned' = freturned \cup
          {[call |-> c, ok |-> FetchStores(a),
            value |-> IF FetchStores(a) THEN Body(c, a) ELSE NoBody]}
    /\ loading' = FALSE
    /\ fnext' = fnext
    /\ UNCHANGED <<pollVars, stopVars, geoVars, getVars, uiVars>>

\* ====================================== useStopRouting / useStartRouting
RoutingCalls == {"stop", "start"}

\* new Error(`Failed to stop routing job ${jobId}: ${response.status}`)
FailureMessage(kind, j, status) ==
    <<"Failed to ", kind, " routing job ", j, ": ">> \o toString(status)

\* how the async callback ends once the request has settled
RoutingOutcome_Above400(kind, j, a) ==
    IF a.thrown THEN [resolved |-> FALSE, value |-> FALSE, message |-> <<"fetch">>]
    ELSE IF a.http > 400
    THEN [resolved |-> FALSE, value |-> FALSE,
          message |-> FailureMessage(kind, j, a.http)]
    ELSE [resolved |-> TRUE, value |-> TRUE, message |-> <<>>]
RoutingOutcome(kind, j, a) ==
    IF a.thrown THEN [resolved |-> FALSE, value |-> FALSE, message |-> <<"fetch">>]
    ELSE IF a.http >= 400
    THEN [resolved |-> FALSE, value |-> FALSE,
          message |-> FailureMessage(kind, j, a.http)]
    ELSE [resolved |-> TRUE, value |-> TRUE, message |-> <<>>]

\* stopRouting({ jobId }) / startRouting({ jobId }): the POST is sent
RoutingCall(kind, j) ==
    /\ snext < MaxRoutingCalls
    /\ snext' = snext + 1
    /\ scalls' = scalls \cup {[id |-> snext + 1, kind |-> kind, job |-> j]}
    /\ UNCHANGED sresults
    /\ UNCHANGED <<pollVars, fetchVars, geoVars, getVars, uiVars>>

\* the POST settles with answer a
RoutingSettle(c, a) ==
    /\ c \in scalls
    /\ scalls' = scalls \ {c}
    /\ sresults' = sresults \cup
          {[id |-> c.id, kind |-> c.kind, job |-> c.job, thrown |-> a.thrown,
            http |-> a.http, outcome |-> RoutingOutcome(c.kind, c.job, a)]}
    /\ snext' = snext
    /\ UNCHANGED <<pollVars, fetchVars, geoVars, getVars, uiVars>>

InitFetch == IdlePoll /\ IdleFetch /\ IdleStop /\ IdleGeo /\ IdleGet /\ IdleUi

NextFetch ==
    \/ FetchCall
    \/ \E c \in fcalls, a \in FetchAnswers : FetchSettle(c, a)

SpecFetch == InitFetch /\ [][NextFetch]_vars

NextRouting ==
    \/ \E kind \in RoutingCalls, j \in Jobs : RoutingCall(kind, j)
    \/ \E c \in scalls, a \in FetchAnswers : RoutingSettle(c, a)

SpecRouting == InitFetch /\ [][NextRouting]_vars

\* the decimal numerals of the statuses the server answers with
StatusDigits(h) ==
    CASE h = 200 -> <<"2", "0", "0">>
      [] h = 204 -> <<"2", "0", "4">>
      [] h = 400 -> <<"4", "0", "0">>
      [] h = 404 -> <<"4", "0", "4">>
      [] h = 500 -> <<"5", "0", "0">>
      [] OTHER -> <<>>

\* C5: useFetch never stores the body of a response with status >= 400 in
\* data and never returns it to its caller as a successful result.
C5_NoErrorBodyAsData ==
    /\ fdata # NoBody => fdata.http < 400
    /\ \A r \in freturned : r.ok => r.value.http < 400

\* C6 as stated: a stop/start call resolves to true exactly when the server
\* answers with a status below 400, and otherwise rejects with an Error whose
\* message names the job id and the status; there is no other outcome.
C6_TrueOrNamedFailure ==
    \A r \in sresults :
        IF ~r.thrown /\ r.http < 400
        THEN r.outcome.resolved /\ r.outcome.value = TRUE
        ELSE /\ ~r.outcome.resolved
             /\ r.outcome.message =
                   <<"Failed to ", r.kind, " routing job ", r.job, ": ">>
                       \o StatusDigits(r.http)

\* C6 amended: a stop/start call resolves to true exactly when the server
\* answers with a status below 400; when the server answers with a status
\* >= 400 it rejects with an Error whose message names the job id and the
\* status; when the request itself fails (no answer) it rejects with the
\* error of the request, which names neither.
C6_TrueNamedFailureOrRequestError ==
    \A r \in sresults :
        IF r.thrown
        THEN ~r.outcome.resolved /\ r.outcome.message = <<"fetch">>
        ELSE IF r.http < 400
        THEN r.outcome.resolved /\ r.outcome.value = TRUE
        ELSE /\ ~r.outcome.resolved
             /\ r.outcome.message =
                   <<"Failed to ", r.kind, " routing job ", r.job, ": ">>
                       \o StatusDigits(r.http)

C6_Witness ==
    \E r1, r2 \in sresults :
        /\ r1.kind = "stop" /\ ~r1.thrown /\ r1.http = 400 /\ ~r1.outcome.resolved
        /\ r2.kind = "start" /\ ~r2.thrown /\ r2.http = 204 /\ r2.outcome.resolved


\* ============================================== transformSolutionToGeoJson
\* vehicle-routing/colors.ts
VRP_COLORS ==
    <<"#a6cee3", "#1f78b4", "#b2df8a", "#33a02c", "#fb9a99", "#e31a1c", "#fdbf6f",
      "#ff7f00", "#cab2d6", "#6a3d9a", "#ffff99", "#b15928", "#8B4513", "#556B2F",
      "#CD5C5C", "#4682B4", "#7B68EE", "#2E8B57", "#8A2BE2", "#FF8C00">>

\* job/colors.ts
ROUTE_COLORS ==
    <<"#f59e0b", "#ea580c", "#4d7c0f", "#0f766e", "#1e3a8a", "#10b981", "#93c5fd",
      "#7e22ce", "#a21caf", "#be185d", "#b91c1c", "#bef264", "#a78bfa", "#fcd34d",
      "#fca5a5", "#365314", "#7f1d1d", "#134e4a", "#0c4a6e", "#4c1d95", "#881337">>

\* array[k], k counted from 0: undefined outside the array
At(arr, k) == IF k >= 0 /\ k < Len(arr) THEN arr[k + 1] ELSE "undefined"

\* getRouteColor(index): ROUTE_COLORS[index % ROUTE_COLORS.length]
getRouteColor(index) == At(ROUTE_COLORS, index % Len(ROUTE_COLORS))

\* RoutesPanel / VehicleRoutingMenu: VRP_COLORS[index % VRP_COLORS.length]
CardColor(index) == At(VRP_COLORS, index % Len(VRP_COLORS))

\* problem.services.findIndex((service) => service.id === serviceId)
getIndexForService(problem, serviceId) ==
    LET hits == {i \in 1..Len(problem.services) : problem.services[i].id = serviceId}
    IN  IF hits = {} THEN -1 ELSE (CHOOSE i \in hits : \A k \in hits : i <= k) - 1

\* getLocationForServiceId throws a TypeError when find() gives undefined or
\* the service's location_id is no index of problem.locations
LocationThrows(problem, serviceId) ==
    \/ getIndexForService(problem, serviceId) < 0
    \/ LET loc == problem.services[getIndexForService(problem, serviceId) + 1].location_id
       IN  loc < 0 \/ loc >= Len(problem.locations)

getLocationForServiceId(problem, serviceId) ==
    LET service == problem.services[getIndexForService(problem, serviceId) + 1]
    IN  problem.locations[service.location_id + 1]

\* route.activities.filter((activity) => activity.type === 'Service')
IsService(activity) == activity.type = "Service"
ServiceActivities(route) == SelectSeq(route.activities, IsService)

\* (index + 1).toString(), index counted from 0
ActivityId_ZeroBased(index) == toString(index)
ActivityId(index) == toString(index + 1)

\* vehicle-routing/geojson.ts: the features of one route
RouteFeaturesVr(problem, solution, routeIndex) ==
    LET acts == ServiceActivities(solution.routes[routeIndex + 1])
    IN  [i \in 1..Len(acts) |->
            [coordinates |-> getLocationForServiceId(problem, acts[i].id),
             routeId |-> toString(routeIndex),
             activityId |-> ActivityId(i - 1),
             color |-> At(VRP_COLORS, routeIndex % Len(solution.routes))]]

\* job/route.tsx: the features of one route
RouteFeaturesJob(problem, solution, routeIndex) ==
    LET acts == ServiceActivities(solution.routes[routeIndex + 1])
    IN  [i \in 1..Len(acts) |->
            [coordinates |-> getLocationForServiceId(problem, acts[i].id),
             routeId |-> toString(routeIndex),
             activityId |-> ActivityId(i - 1),
             color |-> getRouteColor(routeIndex)]]

\* solution.routes.flatMap(...), from route index k on
RECURSIVE FlatMapVr(_, _, _)
FlatMapVr(problem, solution, k) ==
    IF k >= Len(solution.routes) THEN <<>>
    ELSE RouteFeaturesVr(problem, solution, k) \o FlatMapVr(problem, solution, k + 1)

RECURSIVE FlatMapJob(_, _, _)
FlatMapJob(problem, solution, k) ==
    IF k >= Len(solution.routes) THEN <<>>
    ELSE RouteFeaturesJob(problem, solution, k) \o FlatMapJob(problem, solution, k + 1)

\* solution.unassigned_jobs.map(...)
UnassignedFeatures(problem, solution) ==
    [i \in 1..Len(solution.unassigned_jobs) |->
        [coordinates |-> getLocationForServiceId(problem, solution.unassigned_jobs[i]),
         jobId |-> toString(getIndexForService(problem, solution.unassigned_jobs[i]) + 1),
         color |-> "#e5e5e5"]]

AssignedThrows(problem, solution) ==
    \E r \in 1..Len(solution.routes) :
        \E i \in 1..Len(solution.routes[r].activities) :
            /\ IsService(solution.routes[r].activities[i])
            /\ LocationThrows(problem, solution.routes[r].activities[i].id)

UnassignedThrows(problem, solution) ==
    \E i \in 1..Len(solution.unassigned_jobs) :
        LocationThrows(problem, solution.unassigned_jobs[i])

\* vehicle-routing/geojson.ts: { points }
transformSolutionToGeoJsonVr(problem, solution) ==
    IF AssignedThrows(problem, solution)
    THEN [threw |-> TRUE, assigned |-> <<>>, unassigned |-> <<>>]
    ELSE [threw |-> FALSE, assigned |-> FlatMapVr(problem, solution, 0),
          unassigned |-> <<>>]

\* job/route.tsx: { assignedLocations, unassignedLocations }
transformSolutionToGeoJsonJob(problem, solution) ==
    IF AssignedThrows(problem, solution) \/ UnassignedThrows(problem, solution)
    THEN [threw |-> TRUE, assigned |-> <<>>, unassigned |-> <<>>]
    ELSE [threw |-> FALSE, assigned |-> FlatMapJob(problem, solution, 0),
          unassigned |-> UnassignedFeatures(problem, solution)]

\* ---- inputs
ServiceIds == {"s1", "s2"}

RECURSIVE SeqsUpTo(_, _)
SeqsUpTo(S, n) ==
    IF n = 0 THEN {<<>>}
    ELSE LET shorter == SeqsUpTo(S, n - 1)
         IN  shorter \cup {Append(q, x) : q \in {t \in shorter : Len(t) = n - 1}, x \in S}

Activity(type, id) == [type |-> type, id |-> id]

\* a route: its Service stops, between a Start and an End when it has a depot
RouteOf(ids, depot) ==
    [activities |->
        (IF depot THEN <<Activity("Start", "")>> ELSE <<>>)
            \o [i \in 1..Len(ids) |-> Activity("Service", ids[i])]
            \o (IF depot THEN <<Activity("End", "")>> ELSE <<>>)]

Routes == {RouteOf(ids, d) : ids \in SeqsUpTo(ServiceIds, MaxServices), d \in BOOLEAN}

Solutions ==
    {[routes |-> rs, unassigned_jobs |-> u] :
        rs \in SeqsUpTo(Routes, MaxRoutes)
                 \cup {[r \in 1..n |-> RouteOf(<<"s1">>, TRUE)] : n \in 0..MaxWideRoutes},
        u \in {<<>>, <<"s1">>}}

Locations == <<<<0, 0>>, <<10, 11>>, <<20, 21>>>>

\* the first problem knows both services, the second only s1
Problems ==
    {[services |-> <<[id |-> "s1", location_id |-> 1], [id |-> "s2", location_id |-> 2]>>,
      locations |-> Locations],
     [services |-> <<[id |-> "s1", location_id |-> 2]>>, locations |-> Locations]}

InitGeo ==
    /\ IdlePoll /\ IdleFetch /\ IdleStop /\ IdleGet /\ IdleUi
    /\ gproblem \in Problems
    /\ gsolution \in Solutions
    /\ gout = [vr |-> NoResult, job |-> NoResult]
    /\ gpc = "input"

\* useMemo(() => transformSolutionToGeoJson(input, solution))
Transform ==
    /\ gpc = "input"
    /\ gout' = [vr |-> transformSolutionToGeoJsonVr(gproblem, gsolution),
                job |-> transformSolutionToGeoJsonJob(gproblem, gsolution)]
    /\ gpc' = "done"
    /\ UNCHANGED <<gproblem, gsolution>>
    /\ UNCHANGED <<pollVars, fetchVars, stopVars, getVars, uiVars>>

NextGeo == Transform

SpecGeo == InitGeo /\ [][NextGeo]_vars

\* ---- properties
DigitValue(c) ==
    CASE c = "0" -> 0 [] c = "1" -> 1 [] c = "2" -> 2 [] c = "3" -> 3 [] c = "4" -> 4
      [] c = "5" -> 5 [] c = "6" -> 6 [] c = "7" -> 7 [] c = "8" -> 8 [] c = "9" -> 9

RECURSIVE DecimalValue(_)
DecimalValue(ds) ==
    IF ds = <<>> THEN 0
    ELSE DecimalValue(SubSeq(ds, 1, Len(ds) - 1)) * 10 + DigitValue(ds[Len(ds)])

\* ds is the decimal string of n
IsDecimalOf(ds, n) ==
    /\ Len(ds) >= 1
    /\ \A i \in 1..Len(ds) : ds[i] \in {"0", "1", "2", "3", "4", "5", "6", "7", "8", "9"}
    /\ Len(ds) > 1 => ds[1] # "0"
    /\ DecimalValue(ds) = n

ServicePositions(route) ==
    {i \in 1..Len(route.activities) : route.activities[i].type = "Service"}

ServiceSlots(solution) ==
    {<<r, i>> \in (1..Len(solution.routes)) \X (1..(MaxServices + 3)) :
        i \in ServicePositions(solution.routes[r])}

ActivityIdsKnown(problem, solution) ==
    \A slot \in ServiceSlots(solution) :
        \E k \in 1..Len(problem.services) :
            problem.services[k].id = solution.routes[slot[1]].activities[slot[2]].id

\* the features are the N assigned points, each tagged with the index of its
\* route and its 1-based position among the Service activities of that route
AssignedAsClaimed(solution, features) ==
    /\ Len(features) = Cardinality(ServiceSlots(solution))
    /\ \A slot \in ServiceSlots(solution) :
          LET rank == Cardinality({k \in ServicePositions(solution.routes[slot[1]]) :
                                       k <= slot[2]})
          IN  Cardinality({n \in 1..Len(features) :
                              /\ IsDecimalOf(features[n].routeId, slot[1] - 1)
                              /\ IsDecimalOf(features[n].activityId, rank)}) = 1

\* C8: given a problem and a solution in which every Service activity id
\* occurs in problem.services, transformSolutionToGeoJson returns exactly N
\* assigned Point features, N the number of Service activities over all
\* routes; each carries the decimal string of its route's index as routeId
\* and its 1-based position among the route's Service activities as
\* activityId.
C8_AssignedFeatures ==
    (gpc = "done" /\ ActivityIdsKnown(gproblem, gsolution)) =>
        /\ ~gout.vr.threw
        /\ AssignedAsClaimed(gsolution, gout.vr.assigned)
        /\ ~gout.job.threw
        /\ AssignedAsClaimed(gsolution, gout.job.assigned)

C8_Witness ==
    /\ gpc = "done"
    /\ ActivityIdsKnown(gproblem, gsolution)
    /\ Len(gsolution.routes) = 2
    /\ Len(gsolution.routes[1].activities) = 3
    /\ gsolution.routes[1].activities[1].type = "Start"
    /\ Cardinality(ServicePositions(gsolution.routes[1])) = 1
    /\ Cardinality(ServicePositions(gsolution.routes[2])) = 2
    /\ Len(gout.vr.assigned) = 3
    /\ Len(gout.job.assigned) = 3
    /\ gout.job.assigned[3].routeId = <<"1">>
    /\ gout.job.assigned[3].activityId = <<"2">>

\* C9: for every number of routes, every assigned point feature carries a
\* defined palette colour: the palette entry at (route index modulo palette
\* length), the colour of that route's card.
C9_PaletteColour ==
    gpc = "done" =>
        /\ \A n \in 1..Len(gout.vr.assigned) :
              /\ gout.vr.assigned[n].color # "undefined"
              /\ gout.vr.assigned[n].color =
                    VRP_COLORS[(DecimalValue(gout.vr.assigned[n].routeId)
                                   % Len(VRP_COLORS)) + 1]
              /\ gout.vr.assigned[n].color =
                    CardColor(DecimalValue(gout.vr.assigned[n].routeId))
        /\ \A n \in 1..Len(gout.job.assigned) :
              /\ gout.job.assigned[n].color # "undefined"
              /\ gout.job.assigned[n].color =
                    ROUTE_COLORS[(DecimalValue(gout.job.assigned[n].routeId)
                                     % Len(ROUTE_COLORS)) + 1]


\* ================================ getSolution / getStatistics / getOperatorWeights
\* A poll response is null, undefined or an object; a field of the object is
\* absent (undefined), null or a value.
\* isNil(response)
isNilResponse(response) == response.nil \in {"null", "undefined"}

\* `field ?? null`
OrNull(field) == IF field \in {"absent", "null"} THEN "null" ELSE field

\* switch (response.status): a status outside the three cases falls out of
\* the switch, and the function returns undefined
getSolution_PendingPayload(response) ==
    IF isNilResponse(response) THEN "null"
    ELSE CASE response.status = "Pending" -> OrNull(response.solution)
           [] response.status = "Running" -> OrNull(response.solution)
           [] response.status = "Completed" -> OrNull(response.solution)
           [] OTHER -> "undefined"
getSolution(response) ==
    IF isNilResponse(response) THEN "null"
    ELSE CASE response.status = "Pending" -> "null"
           [] response.status = "Running" -> OrNull(response.solution)
           [] response.status = "Completed" -> OrNull(response.solution)
           [] OTHER -> "undefined"

getStatistics(response) ==
    IF isNilResponse(response) THEN "null"
    ELSE CASE response.status = "Pending" -> "null"
           [] response.status = "Running" -> OrNull(response.statistics)
           [] response.status = "Completed" -> OrNull(response.statistics)
           [] OTHER -> "undefined"

getOperatorWeights(response) ==
    IF isNilResponse(response) THEN "null"
    ELSE CASE response.status = "Pending" -> "null"
           [] response.status = "Running" -> OrNull(response.weights)
           [] response.status = "Completed" -> OrNull(response.weights)
           [] OTHER -> "undefined"

PollResponses ==
    {[nil |-> n, status |-> "Pending", solution |-> "absent",
      statistics |-> "absent", weights |-> "absent"] : n \in {"null", "undefined"}}
    \cup
    {[nil |-> "object", status |-> st, solution |-> so, statistics |-> sa,
      weights |-> w] :
        st \in JobStatuses, so \in {"absent", "null", "solution"},
        sa \in {"absent", "null", "statistics"}, w \in {"absent", "null", "weights"}}

InitGet ==
    /\ IdlePoll /\ IdleFetch /\ IdleStop /\ IdleGeo /\ IdleUi
    /\ presponse \in PollResponses
    /\ pout = [solution |-> "null", statistics |-> "null", weights |-> "null"]
    /\ ppc = "input"

\* the screen derives solution, statistics and weights from the response
Get ==
    /\ ppc = "input"
    /\ pout' = [solution |-> getSolution(presponse),
                statistics |-> getStatistics(presponse),
                weights |-> getOperatorWeights(presponse)]
    /\ ppc' = "done"
    /\ UNCHANGED presponse
    /\ UNCHANGED <<pollVars, fetchVars, stopVars, geoVars, uiVars>>

NextGet == Get

SpecGet == InitGet /\ [][NextGet]_vars

\* C10: the three getters return null when the response is null/undefined or
\* its status is Pending, whatever the payload carries; for Running or
\* Completed they return the corresponding field, or null when it is absent.
C10_Getters ==
    ppc = "done" =>
        IF presponse.nil # "object" \/ presponse.status = "Pending"
        THEN pout = [solution |-> "null", statistics |-> "null", weights |-> "null"]
        ELSE /\ pout.solution =
                  (IF presponse.solution = "solution" THEN "solution" ELSE "null")
             /\ pout.statistics =
                  (IF presponse.statistics = "statistics" THEN "statistics" ELSE "null")
             /\ pout.weights =
                  (IF presponse.weights = "weights" THEN "weights" ELSE "null")

C10_Witness ==
    /\ ppc = "done"
    /\ presponse.nil = "object"
    /\ presponse.status = "Running"
    /\ presponse.solution = "solution"
    /\ presponse.statistics = "absent"
    /\ pout.solution = "solution"
    /\ pout.statistics = "null"

\* C12 as stated: while jobId is null (before and after the step) no poll
\* request is issued at all.  The interval of the previous job is cleared by
\* the effect cleanup, which runs after the render that made jobId null, so a
\* timer tick in between still polls the previous job.
C12_NoPollWhileNull ==
    [][(jobId = NoJob /\ jobId' = NoJob) => NewPolls = {}]_vars

\* ======================================================================
\* HomeScreen: POST /route (routes/home.tsx, App.tsx)
\* ======================================================================

RoutingAlgorithm ==
    {"Dijkstra", "Astar", "BidirectionalAstar", "Landmarks", "ContractionHierarchies"}

\* the radio buttons clicked in the model
ClickedAlgorithms == {"Dijkstra", "Landmarks"}

\* the points of the map the user clicks
Coordinates == {[lat |-> 50, lon |-> 4], [lat |-> 51, lon |-> 3]}
\* the geometry coordinates of the features searchBox.retrieve answers with
FeatureCoordinates == {[lat |-> 51, lon |-> 3]}

\* Every event that sets start or end builds a new Address object, and the
\* effect compares its dependencies [start, end] by identity: id tells apart
\* the objects that hold the same address and coordinates.  Only the objects
\* still referenced can be compared, so a new object takes the lowest id
\* that none of those with its address and coordinates has.
LiveAddresses ==
    {hstart, hend} \cup {hqstart[i] : i \in DOMAIN hqstart}
        \cup {hqend[i] : i \in DOMAIN hqend} \cup {r.other : r \in hretrievals}
Same(a, text, c) == a.address = text /\ a.coordinates = c
FreshId(text, c) ==
    CHOOSE i \in 1..(MaxRetrievals + 5) :
        /\ \A a \in LiveAddresses : Same(a, text, c) => a.id # i
        /\ \A k \in 1..(i - 1) : \E a \in LiveAddresses : Same(a, text, c) /\ a.id = k

\* the address a context-menu pick builds: `${coordinates.lat},${coordinates.lon}`
MenuText(c) == toString(c.lat) \o <<",">> \o toString(c.lon)
MenuAddress(c) ==
    [address |-> MenuText(c), coordinates |-> c, id |-> FreshId(MenuText(c), c)]

\* the address an autocomplete retrieval builds: the feature's full_address
\* and its geometry coordinates
FullAddress == <<"full_address">>
RetrievedAddress(c) ==
    [address |-> FullAddress, coordinates |-> c, id |-> FreshId(FullAddress, c)]

\* the body computeRoute posts
RouteBody_Reversed(s, e, dbg, alg) ==
    [start |-> e.coordinates, end |-> s.coordinates,
     include_debug_info |-> dbg, algorithm |-> alg]
RouteBody(s, e, dbg, alg) ==
    [start |-> s.coordinates, end |-> e.coordinates,
     include_debug_info |-> dbg, algorithm |-> alg]

\* computeRoute({start, end}): returns early when either is missing,
\* otherwise void routeRequest({method: 'POST', body}); the value is the body
\* posted, NoRouteBody for none.  The callback is the one of the last render:
\* it posts the flag and the algorithm that render holds.
computeRoute(s, e) ==
    IF s = NoAddress \/ e = NoAddress
    THEN NoRouteBody
    ELSE RouteBody(s, e, hdebug, halgorithm)

\* useEffect(() => { if (!isNil(start) && !isNil(end)) computeRoute(...) },
\* [start, end]) of the last render, when it has not run yet: what it posts.
\* Every render runs the pending effect first, so a pending effect is always
\* the one of the last render and closes over the state as it is.
PendingBody ==
    IF hpending /\ hstart # NoAddress /\ hend # NoAddress
    THEN computeRoute(hstart, hend)
    ELSE NoRouteBody

\* the requests of one step, in the order they go out (NoRouteBody: none)
Issue(first, second) ==
    hsent' = SelectSeq(<<first, second>>, LAMBDA b : b # NoRouteBody)

\* the user picks a suggestion or clicks; the model follows MaxHomeEvents of
\* these events
UserEvent ==
    /\ hevents < MaxHomeEvents
    /\ hevents' = hevents + 1

\* the updates of start and end React has queued and not rendered yet
JourneyQueued == hqstart # <<>> \/ hqend # <<>>

\* the passive effect of the last render runs in a task of its own (after a
\* render that a promise continuation caused), or because routeRequest's
\* setLoading / setData make React render
FlushHomeEffect ==
    /\ hpending
    /\ hpending' = FALSE
    /\ Issue(PendingBody, NoRouteBody)
    /\ UNCHANGED <<hstart, hend, hqstart, hqend, halgorithm, hdebug, hretrievals>>
    /\ UNCHANGED hevents
    /\ UNCHANGED exceptHome

\* React renders the updates of start and end that promise continuations
\* queued (the value a state was given last wins).  The render runs a
\* pending effect first; its own effect on [start, end], when either object
\* is another one, is left for a later task.
RenderJourney ==
    /\ JourneyQueued
    /\ hstart' = IF hqstart # <<>> THEN hqstart[1] ELSE hstart
    /\ hend' = IF hqend # <<>> THEN hqend[1] ELSE hend
    /\ hqstart' = <<>>
    /\ hqend' = <<>>
    /\ Issue(PendingBody, NoRouteBody)
    /\ hpending' = (<<hstart', hend'>> # <<hstart, hend>>)
    /\ UNCHANGED <<halgorithm, hdebug, hretrievals>>
    /\ UNCHANGED hevents
    /\ UNCHANGED exceptHome

\* a state update made in a click while an update of the same state is
\* queued: the click's render leaves the queued update for its own render,
\* which then applies both in the order they were made, so the value of the
\* click is the one it renders
Rebased(q, v) == IF q = <<>> THEN <<>> ELSE <<v>>

\* whether storing v over the state old makes React render: for the value
\* the state already holds, with nothing queued, React may skip the render or
\* render once more before bailing out
StateRenders(old, v) ==
    IF old = v /\ ~JourneyQueued THEN {TRUE, FALSE} ELSE {TRUE}

\* the render of a state update that leaves start and end as they are: a
\* pending effect runs, with the callback of the render that left it
RenderHome(renders) ==
    IF renders
    THEN /\ Issue(PendingBody, NoRouteBody)
         /\ hpending' = FALSE
    ELSE /\ Issue(NoRouteBody, NoRouteBody)
         /\ UNCHANGED hpending

\* the render of a click that stored s and e: it runs a pending effect
\* first, and React runs its own passive effects at the end of its commit;
\* the effect on [start, end] runs when either object is another one
ClickRender(s, e) ==
    IF <<s, e>> # <<hstart, hend>>
    THEN /\ Issue(PendingBody, computeRoute(s, e))
         /\ hpending' = FALSE
    ELSE \E renders \in StateRenders(<<hstart, hend>>, <<s, e>>) : RenderHome(renders)

\* AddressAutocomplete onSelect up to `await searchBox.retrieve(...)`:
\* setInput(suggestion.full_address) makes React render (a pending effect
\* runs), and the callback holds the onRetrieve of the render of the pick,
\* which closes over the other endpoint of that render (`end` for "From",
\* `start` for "To")
FreeRetrieval ==
    CHOOSE i \in 1..MaxRetrievals : \A r \in hretrievals : r.id # i

PickSuggestion(field) ==
    /\ UserEvent
    /\ Cardinality(hretrievals) < MaxRetrievals
    /\ hretrievals' = hretrievals \cup
          {[id |-> FreeRetrieval, field |-> field,
            other |-> IF field = "From" THEN hend ELSE hstart]}
    /\ Issue(PendingBody, NoRouteBody)
    /\ hpending' = FALSE
    /\ UNCHANGED <<hstart, hend, hqstart, hqend, halgorithm, hdebug>>
    /\ UNCHANGED exceptHome

\* the retrieval of a "From" pick resolves: the continuation calls
\* onRetrieve(response), which is onChange(newAddress, end) with the end of
\* the render of the pick: setStart and setEnd are queued, and React renders
\* them later (RenderJourney)
RetrieveFrom(r, c) ==
    /\ r \in hretrievals
    /\ r.field = "From"
    /\ hretrievals' = hretrievals \ {r}
    /\ hqstart' = <<RetrievedAddress(c)>>
    /\ hqend' = <<r.other>>
    /\ Issue(NoRouteBody, NoRouteBody)
    /\ UNCHANGED <<hstart, hend, halgorithm, hdebug, hpending>>
    /\ UNCHANGED hevents
    /\ UNCHANGED exceptHome
\* the retrieval of a "To" pick resolves: onChange(start, newAddress) with
\* the start of the render of the pick
RetrieveTo(r, c) ==
    /\ r \in hretrievals
    /\ r.field = "To"
    /\ hretrievals' = hretrievals \ {r}
    /\ hqstart' = <<r.other>>
    /\ hqend' = <<RetrievedAddress(c)>>
    /\ Issue(NoRouteBody, NoRouteBody)
    /\ UNCHANGED <<hstart, hend, halgorithm, hdebug, hpending>>
    /\ UNCHANGED hevents
    /\ UNCHANGED exceptHome
\* searchBox.retrieve rejects (or its response has no feature): onSelect
\* ends with an exception and onRetrieve is not called
RetrieveFails(r) ==
    /\ r \in hretrievals
    /\ hretrievals' = hretrievals \ {r}
    /\ Issue(NoRouteBody, NoRouteBody)
    /\ UNCHANGED <<hstart, hend, hqstart, hqend, halgorithm, hdebug, hpending>>
    /\ UNCHANGED hevents
    /\ UNCHANGED exceptHome
\* the swap button: onChange(end, start), that is setStart(end); setEnd(start)
\* with the start and end of the last render
SwapJourney ==
    /\ UserEvent
    /\ hstart' = hend
    /\ hend' = hstart
    /\ hqstart' = Rebased(hqstart, hend)
    /\ hqend' = Rebased(hqend, hstart)
    /\ ClickRender(hend, hstart)
    /\ UNCHANGED <<halgorithm, hdebug, hretrievals>>
    /\ UNCHANGED exceptHome
\* map context menu "From here": setStart({address, coordinates})
FromHere(c) ==
    /\ UserEvent
    /\ hstart' = MenuAddress(c)
    /\ hqstart' = Rebased(hqstart, MenuAddress(c))
    /\ ClickRender(MenuAddress(c), hend)
    /\ UNCHANGED <<hend, hqend, halgorithm, hdebug, hretrievals>>
    /\ UNCHANGED exceptHome
\* map context menu "To here": setEnd({address, coordinates})
ToHere(c) ==
    /\ UserEvent
    /\ hend' = MenuAddress(c)
    /\ hqend' = Rebased(hqend, MenuAddress(c))
    /\ ClickRender(hstart, MenuAddress(c))
    /\ UNCHANGED <<hstart, hqstart, halgorithm, hdebug, hretrievals>>
    /\ UNCHANGED exceptHome

\* the Search button: if (start && end) computeRoute({start, end}); the
\* render routeRequest's setLoading(true) brings runs a pending effect
Search ==
    /\ UserEvent
    /\ Issue(computeRoute(hstart, hend), PendingBody)
    /\ hpending' = (hpending /\ computeRoute(hstart, hend) = NoRouteBody)
    /\ UNCHANGED <<hstart, hend, hqstart, hqend, halgorithm, hdebug, hretrievals>>
    /\ UNCHANGED exceptHome

\* the algorithm radio buttons: onChange comes from a button that was not
\* the checked one, setSelectedAlgorithm(event.target.value)
SetSelectedAlgorithm(alg) ==
    /\ UserEvent
    /\ alg \in RoutingAlgorithm \ {halgorithm}
    /\ halgorithm' = alg
    /\ RenderHome(TRUE)
    /\ UNCHANGED <<hstart, hend, hqstart, hqend, hdebug, hretrievals>>
    /\ UNCHANGED exceptHome

\* the "Include debug info" checkbox, checked={includeDebugInfo}: a click
\* toggles it, setIncludeDebugInfo(event.target.checked)
SetIncludeDebugInfo(b) ==
    /\ UserEvent
    /\ b = ~hdebug
    /\ hdebug' = b
    /\ RenderHome(TRUE)
    /\ UNCHANGED <<hstart, hend, hqstart, hqend, halgorithm, hretrievals>>
    /\ UNCHANGED exceptHome

InitHome ==
    /\ IdlePoll /\ IdleFetch /\ IdleStop /\ IdleGeo /\ IdleGet /\ IdleScreen /\ IdleBench /\ IdleProblem /\ IdleSchedule /\ IdleHidden /\ IdleZoom /\ IdleScript /\ IdlePanel /\ IdleMapbox
    /\ hstart = NoAddress
    /\ hend = NoAddress
    /\ hqstart = <<>>
    /\ hqend = <<>>
    /\ halgorithm = "Dijkstra"
    /\ hdebug = FALSE
    /\ hsent = <<>>
    /\ hevents = 0
    /\ hpending = FALSE
    /\ hretrievals = {}

NextHome ==
    \/ \E field \in {"From", "To"} : PickSuggestion(field)
    \/ \E r \in hretrievals, c \in FeatureCoordinates : RetrieveFrom(r, c)
    \/ \E r \in hretrievals, c \in FeatureCoordinates : RetrieveTo(r, c)
    \/ \E r \in hretrievals : RetrieveFails(r)
    \/ RenderJourney
    \/ FlushHomeEffect
    \/ SwapJourney
    \/ \E c \in Coordinates : FromHere(c)
    \/ \E c \in Coordinates : ToHere(c)
    \/ Search
    \/ \E alg \in ClickedAlgorithms : SetSelectedAlgorithm(alg)
    \/ \E b \in BOOLEAN : SetIncludeDebugInfo(b)

SpecHome == InitHome /\ [][NextHome]_vars

\* The home screen with its scheduling: React renders the queued updates
\* and runs the pending passive effects.  Picks, clicks and the answers of
\* the retrievals are the user's and the network's.
FairHome ==
    /\ WF_vars(RenderJourney)
    /\ WF_vars(FlushHomeEffect)

SpecHomeFair == InitHome /\ [][NextHome]_vars /\ FairHome

\* the bodies of the requests a step issues, in order
Sent == hsent'

\* body b carries the coordinates of s and e, with the flag and the
\* algorithm the screen shows as selected when the step begins
Carries(b, s, e) ==
    /\ s # NoAddress /\ e # NoAddress
    /\ b.start = s.coordinates
    /\ b.end = e.coordinates
    /\ b.include_debug_info = hdebug
    /\ b.algorithm = halgorithm

\* the step stores another object in start or end
JourneyChanged == <<hstart', hend'>> # <<hstart, hend>>

\* C11: a POST /route request is issued only for a start and an end that are
\* both set: every request carries the coordinates of the start and end the
\* screen holds, or of the ones the step has just stored, with the
\* include_debug_info flag and the algorithm selected at that moment.  Every
\* change of start or end that leaves both set issues one request for the
\* new journey: in the step of the change when a click made it, and else by
\* the effect of its render, which is pending after the step, issues its
\* request when it runs and does run.  A step issues at most one request
\* beside the one of a pending effect.
C11_RouteRequests ==
    /\ [][ /\ Len(Sent) <= 2
           /\ ~hpending => Len(Sent) <= 1
           /\ \A i \in DOMAIN Sent :
                 \/ Carries(Sent[i], hstart, hend)
                 \/ /\ JourneyChanged
                    /\ i = Len(Sent)
                    /\ Carries(Sent[i], hstart', hend')
           /\ (JourneyChanged /\ hstart' # NoAddress /\ hend' # NoAddress)
               => \/ hpending'
                  \/ /\ Sent # <<>>
                     /\ Carries(Sent[Len(Sent)], hstart', hend')
           /\ (hpending /\ hstart # NoAddress /\ hend # NoAddress
                   /\ (~hpending' \/ JourneyChanged))
               => \E i \in DOMAIN Sent : Carries(Sent[i], hstart, hend) ]_vars
    /\ (hpending ~> ~hpending)

\* two retrievals overlapped and the algorithm was changed meanwhile: the end
\* was set from the map, a "From" and then a "To" suggestion were picked
\* (the "To" pick saw no start), the "From" retrieval was rendered and the
\* effect of that render has posted the journey with the algorithm selected
\* by then, while the "To" retrieval is still awaited
C11_Witness ==
    /\ ~hpending
    /\ ~JourneyQueued
    /\ Len(hsent) = 1
    /\ hsent[1].start = hstart.coordinates
    /\ hsent[1].end = hend.coordinates
    /\ hsent[1].algorithm = "Landmarks"
    /\ hstart.address = <<"full_address">>
    /\ hend.address = <<"5", "0", ",", "4">>
    /\ \E r \in hretrievals : r.field = "To" /\ r.other = NoAddress

\* ======================================================================
\* VehicleRoutingScreen: the Start / Stop controls and startRouting
\* (routes/job/route.tsx with components/VehicleRoutingToolbar.tsx;
\*  routes/vehicle-routing/route.tsx with components/VehicleRoutingToolbar.tsx)
\* ======================================================================

\* what the screen reads as `response` from its usePollRouting:
\*   job screen:       const { response } = usePollRouting(...), which returns
\*                     { response }
\*   vehicle-routing:  const { response } = usePollRouting(...), which returns
\*                     { solution }: response is undefined, whatever was polled
ScreenResponse == IF screen = "job" THEN Exposed ELSE Null

\* const polling = response?.status === 'Running', handed on as isRunning
isRunning == ScreenResponse.status = "Running"

\* the Start button's disabled prop: isRunning || isNil(input) || isStarting;
\* the context of the vehicle-routing screen provides no isStarting
\* (undefined)
StartDisabled ==
    IF screen = "job"
    THEN isRunning \/ ~input \/ isStarting
    ELSE isRunning \/ ~input
StartEnabled == ~StartDisabled

\* {isRunning && <Button ...>Stop</Button>}
StopOffered == isRunning

StartOutcomes == {"resolved", "rejected"}

\* JsonFileUpload of the vehicle-routing toolbar, disabled while isRunning: a
\* file is picked and onFileUpload runs up to `await file.text()`
PickFile ==
    /\ screen = "vehicle-routing"
    /\ ~isRunning
    /\ uploading < MaxUploads
    /\ uploading' = uploading + 1
    /\ UNCHANGED <<screen, input, qinput, isStarting, startCalls, startNext,
                   startResults, restarts>>
    /\ UNCHANGED pollVars
    /\ UNCHANGED exceptScreen

\* what JSON.parse makes of the text of a file: a problem, null (the text
\* "null"), or an exception
Parsed == {"problem", "null", "throws"}

\* the state updates of the vehicle-routing screen React has queued
ScreenQueued == Queued \/ qinput # <<>>

\* whether setInput queues an update: none when JSON.parse throws; a parsed
\* problem is a new object; null stored over null with nothing else queued
\* may be dropped by React at once or be queued and rendered once more
InputRenders(parsed) ==
    IF parsed = "throws" THEN {FALSE}
    ELSE IF parsed = "null" /\ ~input /\ ~ScreenQueued THEN {TRUE, FALSE}
    ELSE {TRUE}

\* the text of a picked file is there: onInputChange(JSON.parse(data)), which
\* is setInput, in the continuation of `await file.text()`: the update is
\* queued and rendered later (RenderScreen); when JSON.parse throws nothing
\* is queued
OnInputChange(parsed) ==
    /\ screen = "vehicle-routing"
    /\ uploading > 0
    /\ uploading' = uploading - 1
    /\ \E renders \in InputRenders(parsed) :
          qinput' = IF renders THEN <<parsed = "problem">> ELSE qinput
    /\ UNCHANGED <<screen, input, isStarting, startCalls, startNext, startResults,
                   restarts>>
    /\ UNCHANGED pollVars
    /\ UNCHANGED exceptScreen

\* React renders the vehicle-routing screen with the updates queued by
\* promise continuations (setInput, useFetch's setData, run()'s setSolution
\* and setError, all state of the one component)
RenderScreen ==
    /\ screen = "vehicle-routing"
    /\ ScreenQueued
    /\ RenderQueued
    /\ input' = IF qinput # <<>> THEN qinput[1] ELSE input
    /\ qinput' = <<>>
    /\ UNCHANGED <<screen, uploading, isStarting, startCalls, startNext,
                   startResults, restarts>>
    /\ UNCHANGED exceptScreen

\* a click on Start calls startRouting(), up to its await (the mutation
\* turning pending, or useFetch's setLoading(true), brings the render of the
\* click, which leaves the updates queued by promise continuations queued):
\*   job screen:       await startJob({jobId})      (the mutation turns pending)
\*   vehicle-routing:  if (!isNil(input)) await postRouting(input)
ClickStart ==
    /\ StartEnabled
    /\ startNext < MaxStartCalls
    /\ startNext' = startNext + 1
    /\ IF screen = "job"
       THEN /\ startCalls' = startCalls \cup {startNext + 1}
            /\ isStarting' = TRUE
       ELSE /\ startCalls' = IF input THEN startCalls \cup {startNext + 1}
                             ELSE startCalls
            /\ isStarting' = isStarting
    /\ UNCHANGED <<screen, input, qinput, uploading, startResults, restarts>>
    /\ RenderPoll
    /\ UNCHANGED exceptScreen

\* what follows the await of startRouting on the job screen: restartPolling()
\* when the start request resolved, nothing when it rejected (the rejection
\* leaves the async callback)
AfterStart_CallsAlways(o) ==
    /\ refetch
    /\ restarts' = restarts + 1
AfterStart(o) ==
    IF o = "resolved"
    THEN /\ refetch
         /\ restarts' = restarts + 1
    ELSE /\ UNCHANGED pollVars
         /\ restarts' = restarts

\* the start request of the job screen settles: the mutation leaves pending
\* and startRouting goes on after its await
StartJobSettle(c, o) ==
    /\ screen = "job"
    /\ c \in startCalls
    /\ startCalls' = startCalls \ {c}
    /\ startResults' = startResults \cup {[call |-> c, outcome |-> o]}
    /\ isStarting' = FALSE
    /\ AfterStart(o)
    /\ UNCHANGED <<screen, input, qinput, uploading, startNext>>
    /\ UNCHANGED exceptScreen

\* the POST /vrp of the vehicle-routing screen settles: the rest of
\* useFetch's callback after its awaits.  It stores the JSON body of the
\* answer whatever its status (setData(json), queued), and the next render
\* hands `data?.job_id ?? null` to usePollRouting: j is the job_id of the
\* body, or nil (NoJob) when the body has none (an error body).  A request
\* that rejects (no answer, no JSON) queues no setData.  Several requests
\* can settle before one render: the body stored last is the one rendered.
PostRoutingSettle(c, o, j) ==
    /\ screen = "vehicle-routing"
    /\ c \in startCalls
    /\ startCalls' = startCalls \ {c}
    /\ startResults' = startResults \cup {[call |-> c, outcome |-> o]}
    /\ IF o = "resolved"
       THEN SetJobIdPoll(j)
       ELSE UNCHANGED pollVars
    /\ UNCHANGED <<screen, input, qinput, uploading, isStarting, startNext, restarts>>
    /\ UNCHANGED exceptScreen

InitScreen(scr) ==
    /\ InitPoll
    /\ hook = (IF scr = "job" THEN "queryV1" ELSE "effect")
    /\ IdleFetch /\ IdleStop /\ IdleGeo /\ IdleGet /\ IdleHome /\ IdleBench /\ IdleProblem /\ IdleSchedule /\ IdleHidden /\ IdleZoom /\ IdleScript /\ IdlePanel /\ IdleMapbox
    /\ screen = scr
    /\ input = (scr = "job")
    /\ qinput = <<>>
    /\ uploading = 0
    /\ isStarting = FALSE
    /\ startCalls = {}
    /\ startNext = 0
    /\ startResults = {}
    /\ restarts = 0

\* the job screen: its jobId comes from the loader and never changes
InitJobScreen == InitScreen("job")

NextJobScreen ==
    \/ ClickStart
    \/ \E c \in 1..MaxStartCalls, o \in StartOutcomes : StartJobSettle(c, o)
    \/ QueryTick
    \/ \E m \in inflight : \E o \in Outcomes(m) : Deliver(m, o)

SpecJobScreen == InitJobScreen /\ [][NextJobScreen]_vars

\* the vehicle-routing screen: its jobId is the job_id of the last POST /vrp
InitVrScreen == InitScreen("vehicle-routing")

NextVrScreen ==
    \/ PickFile
    \/ \E parsed \in Parsed : OnInputChange(parsed)
    \/ ClickStart
    \/ \E c \in 1..MaxStartCalls, o \in StartOutcomes, j \in Jobs \cup {NoJob} :
          PostRoutingSettle(c, o, j)
    \/ RenderScreen
    \/ FlushEffect
    \/ \E j \in Jobs : Tick(j)
    \/ \E m \in inflight : \E o \in Outcomes(m) : Deliver(m, o)

SpecVrScreen == InitVrScreen /\ [][NextVrScreen]_vars

\* C13: on the job screen restartPolling is called only in the step in which
\* a start request that was awaited resolves, once per such step, and the
\* refetch it makes polls the job; a step in which a start request rejects
\* calls no restartPolling and issues no poll.
StartSettled == startResults' \ startResults
C13_RestartAfterResolve ==
    [][ /\ restarts' # restarts =>
            /\ \E r \in StartSettled : r.outcome = "resolved"
            /\ restarts' = restarts + 1
            /\ \E m \in NewPolls : m.src = "refetch" /\ m.job = jobId
        /\ (\E m \in NewPolls : m.src = "refetch") => restarts' # restarts
        /\ (\E r \in StartSettled : r.outcome = "rejected") =>
            /\ restarts' = restarts
            /\ NewPolls = {} ]_vars

\* a first start request rejected without a restart, a second one resolved
\* and restarted the polling
C13_Witness ==
    /\ screen = "job"
    /\ startNext = 2
    /\ startResults = {[call |-> 1, outcome |-> "rejected"],
                       [call |-> 2, outcome |-> "resolved"]}
    /\ restarts = 1
    /\ \E m \in inflight : m.src = "refetch"

\* C14: Start is enabled only when there is an input, no start request is in
\* flight and the last polled job status is not Running; Stop is offered
\* exactly when the last polled job status is Running.
LastPolledStatus == data.status
C14_StartStopControls ==
    /\ StartEnabled =>
          /\ input
          /\ startCalls = {}
          /\ LastPolledStatus # "Running"
    /\ StopOffered <=> LastPolledStatus = "Running"

\* ======================================================================
\* usePostBenchmark: stopBenchmark (routes/benchmarks/route.tsx)
\* ======================================================================

\* startBenchmark got the body of its answer: setJobId(response.job_id), in
\* the continuation of `await post(...)`, so the update is queued and React
\* renders it later (RenderBenchmark).  useFetch returns the body whatever
\* the status, so j is the job id of a started benchmark, or nil (NoJob)
\* when the body has no job_id (an error body, {}).
BenchmarkStarted(j) ==
    /\ bqueue' = <<j>>
    /\ UNCHANGED <<bversion, bjobId, bstops, bnext, bresults>>
    /\ UNCHANGED exceptBench

\* React renders the benchmark screen with the queued setJobId (the last
\* value set); stopBenchmark is a useCallback on [jobId] and holds the jobId
\* of this render from now on
RenderBenchmark ==
    /\ bqueue # <<>>
    /\ bjobId' = bqueue[1]
    /\ bqueue' = <<>>
    /\ UNCHANGED <<bversion, bstops, bnext, bresults>>
    /\ UNCHANGED exceptBench

\* whether stopBenchmark sends its request
\*   "hook":   if (jobId) { await stopRouting({jobId}) ... }
\*   "fetch":  await fetch(`${API_URL}/vrp/benchmark/stop/${jobId}`, ...)
SendsStop(v, j) == IF v = "hook" THEN ~isNil(j) ELSE TRUE

\* stopBenchmark() up to its await; the callback holds the jobId of the last
\* render, whatever a setJobId has queued since
StopBenchmark ==
    /\ bnext < MaxStops
    /\ IF SendsStop(bversion, bjobId)
       THEN /\ bstops' = bstops \cup {[id |-> bnext + 1, job |-> bjobId]}
            /\ bnext' = bnext + 1
       ELSE UNCHANGED <<bstops, bnext>>
    /\ UNCHANGED <<bversion, bjobId, bqueue, bresults>>
    /\ UNCHANGED exceptBench

\* whether the awaited stop request lets stopBenchmark go on to setJobId(null)
\*   "hook":   stopRouting resolves (it throws on a status >= 400)
\*   "fetch":  fetch resolves, whatever the status
StopResolves(v, c, a) ==
    IF v = "hook" THEN RoutingOutcome("stop", c.job, a).resolved ELSE ~a.thrown

\* the stop request settles with answer a, then setJobId(null) when the
\* await resolved: the update is queued and React renders it later
StopBenchmarkSettle(c, a) ==
    /\ c \in bstops
    /\ bstops' = bstops \ {c}
    /\ bresults' = bresults \cup {[id |-> c.id, job |-> c.job,
                                   thrown |-> a.thrown, http |-> a.http]}
    /\ bqueue' = IF StopResolves(bversion, c, a) THEN <<NoJob>> ELSE bqueue
    /\ UNCHANGED <<bversion, bjobId, bnext>>
    /\ UNCHANGED exceptBench

InitBenchmark(v) ==
    /\ IdlePoll /\ IdleFetch /\ IdleStop /\ IdleGeo /\ IdleGet
    /\ IdleHome /\ IdleScreen /\ IdleProblem /\ IdleSchedule /\ IdleHidden /\ IdleZoom /\ IdleScript /\ IdlePanel /\ IdleMapbox
    /\ bversion = v
    /\ bjobId = NoJob
    /\ bqueue = <<>>
    /\ bstops = {}
    /\ bnext = 0
    /\ bresults = {}

NextBenchmark ==
    \/ \E j \in Jobs \cup {NoJob} : BenchmarkStarted(j)
    \/ RenderBenchmark
    \/ StopBenchmark
    \/ \E c \in bstops, a \in FetchAnswers : StopBenchmarkSettle(c, a)

\* stopBenchmark through useStopRouting
SpecBenchmark == InitBenchmark("hook") /\ [][NextBenchmark]_vars
\* stopBenchmark through a bare fetch
SpecBenchmarkFetch == InitBenchmark("fetch") /\ [][NextBenchmark]_vars

\* the job id the screen holds once React has rendered what is queued
BenchJobId == IF bqueue # <<>> THEN bqueue[1] ELSE bjobId

\* C15: a stop request is sent only for the job id set at that moment (none
\* when no job id is set); a step in which a stop request settles changes
\* the job id (the one rendered, or the one queued for the next render) only
\* to null and only when the request got a successful answer; a stop request
\* that failed (fetch threw, or a status >= 400) leaves the job id unchanged.
StopsSent == bstops' \ bstops
StopsSettled == bresults' \ bresults
C15_StopBenchmark ==
    [][ /\ \A c \in StopsSent : bjobId # NoJob /\ c.job = bjobId
        /\ (StopsSettled # {} /\ <<bjobId', BenchJobId'>> # <<bjobId, BenchJobId>>) =>
              /\ bjobId' = bjobId
              /\ BenchJobId' = NoJob
              /\ \E r \in StopsSettled : ~r.thrown /\ r.http < 400
        /\ (\E r \in StopsSettled : r.thrown \/ r.http >= 400) =>
              <<bjobId', BenchJobId'>> = <<bjobId, BenchJobId>> ]_vars

\* ======================================================================
\* getGeoJSONFromProblem (routes/job/route.tsx, routes/vehicle-routing/geojson.ts)
\* ======================================================================

\* a vehicle without depot: depot_location_id null or undefined
NoDepot == -1

\* problem.vehicles.map(v => v.depot_location_id).filter(id => !isNil(id))
depotLocationIds(problem) ==
    SelectSeq([k \in 1..Len(problem.vehicles) |->
                   problem.vehicles[k].depot_location_id],
              LAMBDA id : id # NoDepot)

\* array.includes(x)
includes(arr, x) == \E k \in 1..Len(arr) : arr[k] = x

\* problem.locations.map((location, index) => ({location, index}))
Indexed(problem) ==
    [k \in 1..Len(problem.locations) |->
        [location |-> problem.locations[k], index |-> k - 1]]

\* neighbors?.includes(index) ? 'red' : '#475569'
NeighborColor_Inverted(neighbors, index) ==
    IF ~neighbors.nil /\ index \in neighbors.ids THEN "#475569" ELSE "red"
NeighborColor(neighbors, index) ==
    IF ~neighbors.nil /\ index \in neighbors.ids THEN "red" ELSE "#475569"

PointFeature(location, locationId, color) ==
    [coordinates |-> location.coordinates, locationId |-> locationId,
     color |-> color]

\* the job screen's version: two collections
getGeoJSONFromProblemJob(problem, neighbors) ==
    LET ids == depotLocationIds(problem)
        kept == SelectSeq(Indexed(problem), LAMBDA e : ~includes(ids, e.index))
        deps == SelectSeq(Indexed(problem), LAMBDA e : includes(ids, e.index))
    IN [locations |->
           [k \in 1..Len(kept) |->
               PointFeature(kept[k].location, toString(kept[k].index + 1),
                            NeighborColor(neighbors, kept[k].index))],
        depots |->
           [k \in 1..Len(deps) |->
               PointFeature(deps[k].location, <<"P">>, "black")]]

\* the vehicle-routing screen's version: one collection, no neighbors
getGeoJSONFromProblemVr(problem) ==
    LET ids == depotLocationIds(problem)
    IN [points |->
           [k \in 1..Len(problem.locations) |->
               PointFeature(problem.locations[k], toString((k - 1) + 1),
                            IF includes(ids, k - 1) THEN "black" ELSE "#475569")]]

\* inputs: location k-1 lies at its own coordinates
LocationAt(index) == [coordinates |-> <<4 + index, 50 + index>>]
ProblemLocations == {[k \in 1..n |-> LocationAt(k - 1)] : n \in 1..MaxLocations}
VehicleSeqs(n) ==
    UNION {[1..m -> {[depot_location_id |-> d] : d \in (0..(n - 1)) \cup {NoDepot}}] :
              m \in 0..MaxVehicles}
GeoProblems ==
    UNION {{[locations |-> ls, vehicles |-> vs] : vs \in VehicleSeqs(Len(ls))} :
              ls \in ProblemLocations}
NeighborLists(n) ==
    {[nil |-> TRUE, ids |-> {}]} \cup
        {[nil |-> FALSE, ids |-> ns] : ns \in SUBSET (0..(n - 1))}

InitProblem ==
    /\ IdlePoll /\ IdleFetch /\ IdleStop /\ IdleGeo /\ IdleGet
    /\ IdleHome /\ IdleScreen /\ IdleBench /\ IdleSchedule /\ IdleHidden /\ IdleZoom /\ IdleScript /\ IdlePanel /\ IdleMapbox
    /\ pgproblem \in GeoProblems
    /\ pgneighbors \in NeighborLists(Len(pgproblem.locations))
    /\ pgout = NoProblemGeoJson
    /\ pgpc = "input"

\* one call of the exported getGeoJSONFromProblem(problem, neighbors) of
\* routes/job/route.tsx, and one of the getGeoJSONFromProblem(problem) of
\* routes/vehicle-routing/geojson.ts.  The job screen itself calls the
\* function with the problem only, which is the nil neighbors of
\* NeighborLists; a list of neighbors is an input of the function.
ProblemGeoJson ==
    /\ pgpc = "input"
    /\ pgout' = [job |-> getGeoJSONFromProblemJob(pgproblem, pgneighbors),
                 vr |-> getGeoJSONFromProblemVr(pgproblem)]
    /\ pgpc' = "done"
    /\ UNCHANGED <<pgproblem, pgneighbors>>
    /\ UNCHANGED exceptProblem

NextProblem == ProblemGeoJson

SpecProblem == InitProblem /\ [][NextProblem]_vars

\* property side
IsDepot(index) ==
    \E k \in 1..Len(pgproblem.vehicles) :
        pgproblem.vehicles[k].depot_location_id = index
FeaturesAt(features, index) ==
    {k \in 1..Len(features) :
        features[k].coordinates = pgproblem.locations[index + 1].coordinates}
LocationIndices == 0..(Len(pgproblem.locations) - 1)

\* the claim, read on a result with the members locations and depots
PartitionAsClaimed(locations, depots) ==
    \A index \in LocationIndices :
        LET inLoc == FeaturesAt(locations, index)
            inDep == FeaturesAt(depots, index)
        IN /\ Cardinality(inLoc) + Cardinality(inDep) = 1
           /\ (inDep # {}) <=> IsDepot(index)
           /\ \A k \in inLoc :
                /\ IsDecimalOf(locations[k].locationId, index + 1)
                /\ locations[k].color =
                      (IF ~pgneighbors.nil /\ index \in pgneighbors.ids
                       THEN "red" ELSE "#475569")
           /\ \A k \in inDep :
                /\ depots[k].locationId = <<"P">>
                /\ depots[k].color = "black"

\* C16 as stated, of both versions; the vehicle-routing version returns only
\* points, read here as its locations, and no depots
C16_PartitionBothVersions ==
    pgpc = "done" =>
        /\ PartitionAsClaimed(pgout.job.locations, pgout.job.depots)
        /\ PartitionAsClaimed(pgout.vr.points, <<>>)

\* C16 (amended): the job screen's getGeoJSONFromProblem partitions the
\* location indices between locations.points and depots.points as stated
\* (depots exactly for indices that are some vehicle's depot_location_id;
\* non-depots labelled index+1 and 'red' iff in neighbors, else '#475569';
\* depots labelled 'P' and 'black'); the vehicle-routing version returns one
\* points collection holding every location once, in order, labelled index+1,
\* 'black' for a depot and '#475569' otherwise.
C16_Partition ==
    pgpc = "done" =>
        /\ PartitionAsClaimed(pgout.job.locations, pgout.job.depots)
        /\ Len(pgout.vr.points) = Len(pgproblem.locations)
        /\ \A index \in LocationIndices :
              LET f == pgout.vr.points[index + 1]
              IN /\ f.coordinates = pgproblem.locations[index + 1].coordinates
                 /\ IsDecimalOf(f.locationId, index + 1)
                 /\ f.color = (IF IsDepot(index) THEN "black" ELSE "#475569")

\* three locations, the second a depot, the third a neighbour, one vehicle
\* without depot: the job version put one feature in depots and two in
\* locations, one of them red
C16_Witness ==
    /\ pgpc = "done"
    /\ Len(pgproblem.locations) = 3
    /\ Len(pgproblem.vehicles) = 2
    /\ pgproblem.vehicles[1].depot_location_id = 1
    /\ pgproblem.vehicles[2].depot_location_id = NoDepot
    /\ pgneighbors = [nil |-> FALSE, ids |-> {2}]
    /\ Len(pgout.job.depots) = 1
    /\ Len(pgout.job.locations) = 2
    /\ pgout.job.locations[2].color = "red"
    /\ pgout.job.locations[2].locationId = <<"3">>
    /\ pgout.job.locations[1].color = "#475569"

\* ======================================================================
\* RoutingSchedule: the segments of each route
\* (routes/vehicle-routing/components/RoutingSchedule.tsx)
\* ======================================================================

TZ == "Europe/Brussels"

\* an ISO 8601 duration of n seconds, as the server writes it
IsoDuration(n) == <<"P", "T">> \o toString(n) \o <<"S">>

\* Temporal.Duration.from(iso).total('seconds') of such a duration: the
\* number between "PT" and "S"
RECURSIVE DigitsValue(_)
DigitsValue(ds) ==
    IF ds = <<>> THEN 0
    ELSE DigitsValue(SubSeq(ds, 1, Len(ds) - 1)) * 10
            + (CHOOSE d \in 0..9 : Digit(d) = ds[Len(ds)])
DurationFrom(iso) == DigitsValue(SubSeq(iso, 3, Len(iso) - 1))

\* Temporal.Instant.from(time): instants are counted in seconds
InstantFrom(time) == time
\* instant.toZonedDateTimeISO(TZ)
toZonedDateTimeISO(instant, tz) == [instant |-> instant, timeZone |-> tz]

\* the waitingDuration local: zero unless the activity is a Service
waitingDuration_Zero(activity) == 0
waitingDuration(activity) ==
    IF activity.type = "Service" THEN DurationFrom(activity.waiting_duration) ELSE 0

\* the condition of the waiting segment
HasWaitingSegment(activity) ==
    activity.type = "Service" /\ waitingDuration(activity) > 0

\* the flatMap callback: the segments of the activity at `index` (0-based)
ActivitySegments(route, index) ==
    LET activity == route.activities[index + 1]
        waiting ==
            IF HasWaitingSegment(activity)
            THEN << [start |-> toZonedDateTimeISO(InstantFrom(activity.arrival_time), TZ),
                     end |-> toZonedDateTimeISO(
                                 InstantFrom(activity.arrival_time)
                                    + DurationFrom(activity.waiting_duration), TZ),
                     type |-> "waiting", activity |-> activity, to |-> activity] >>
            ELSE <<>>
        act == << [start |-> toZonedDateTimeISO(
                                 InstantFrom(activity.arrival_time)
                                    + waitingDuration(activity), TZ),
                   end |-> toZonedDateTimeISO(InstantFrom(activity.departure_time), TZ),
                   type |-> "activity", activity |-> activity, to |-> activity] >>
        driving ==
            IF index + 1 < Len(route.activities)
            THEN LET nextActivity == route.activities[index + 2]
                 IN << [start |-> toZonedDateTimeISO(InstantFrom(activity.departure_time), TZ),
                        end |-> toZonedDateTimeISO(InstantFrom(nextActivity.arrival_time), TZ),
                        type |-> "driving", activity |-> activity,
                        to |-> nextActivity] >>
            ELSE <<>>
    IN waiting \o act \o driving

\* route.activities.flatMap(...)
RECURSIVE RouteSegments(_, _)
RouteSegments(route, upto) ==
    IF upto = 0 THEN <<>>
    ELSE RouteSegments(route, upto - 1) \o ActivitySegments(route, upto - 1)

\* the useMemo: [] without a solution, else one schedule per route
BuildSchedules(response) ==
    IF ~response.hasSolution THEN <<>>
    ELSE [k \in 1..Len(response.routes) |->
            [route |-> response.routes[k], index |-> k - 1,
             segments |-> RouteSegments(response.routes[k],
                                        Len(response.routes[k].activities))]]

\* zonedDateTime.epochMilliseconds
epochMilliseconds(zoned) == zoned.instant * 1000

\* getSegmentId: `${segment.start.epochMilliseconds}-${segment.end.epochMilliseconds}`
getSegmentId(segment) ==
    toString(epochMilliseconds(segment.start)) \o <<"-">>
        \o toString(epochMilliseconds(segment.end))

\* Schedule: schedule.segments.map((segment) => <Segment key={getSegmentId(segment)} />)
\* for every row
RowKeys(built) ==
    [r \in 1..Len(built) |->
        [i \in 1..Len(built[r].segments) |-> getSegmentId(built[r].segments[i])]]

\* inputs: a route is a chain of stops; each stop has a type, a waiting time
\* (a Service only), a time on site and the drive to the next stop (0 when
\* the next stop is at the same place)
ActivityTypes == {"Start", "Service", "End"}
Stops ==
    {[type |-> t, waiting |-> w, onSite |-> s, drive |-> d] :
        t \in ActivityTypes, w \in {0, 2}, s \in {0, 1}, d \in {0, 3}}
StopChains == UNION {[1..n -> Stops] : n \in 1..MaxActivities}

RECURSIVE ArrivalOf(_, _)
ArrivalOf(chain, k) ==
    IF k = 1 THEN 100
    ELSE ArrivalOf(chain, k - 1) + chain[k - 1].waiting + chain[k - 1].onSite
            + chain[k - 1].drive

\* the activity of a stop, as the server sends it; waiting_duration is a
\* field of Service activities
ActivityOf(chain, k) ==
    [type |-> chain[k].type,
     arrival_time |-> ArrivalOf(chain, k),
     departure_time |-> ArrivalOf(chain, k) + chain[k].waiting + chain[k].onSite,
     waiting_duration |-> IsoDuration(chain[k].waiting)]
ScheduleRouteOf(chain) == [activities |-> [k \in 1..Len(chain) |-> ActivityOf(chain, k)]]

WellFormedChain(chain) ==
    \A k \in 1..Len(chain) : chain[k].type # "Service" => chain[k].waiting = 0

ScheduleRoutes == {ScheduleRouteOf(chain) : chain \in {c \in StopChains : WellFormedChain(c)}}
PairRoutes == {r \in ScheduleRoutes : Len(r.activities) = 2
                                       /\ r.activities[1].type = "Start"}
ScheduleResponses ==
    {[hasSolution |-> FALSE, routes |-> <<>>], [hasSolution |-> TRUE, routes |-> <<>>]}
      \cup {[hasSolution |-> TRUE, routes |-> <<r>>] : r \in ScheduleRoutes}
      \cup {[hasSolution |-> TRUE, routes |-> <<r1, r2>>] :
               r1 \in PairRoutes, r2 \in PairRoutes}

InitSchedule ==
    /\ IdlePoll /\ IdleFetch /\ IdleStop /\ IdleGeo /\ IdleGet
    /\ IdleHome /\ IdleScreen /\ IdleBench /\ IdleProblem /\ IdleHidden /\ IdleZoom /\ IdleScript /\ IdlePanel /\ IdleMapbox
    /\ schResponse \in ScheduleResponses
    /\ schedules = <<>>
    /\ segmentIds = <<>>
    /\ schPc = "input"

RenderSchedule ==
    /\ schPc = "input"
    /\ schedules' = BuildSchedules(schResponse)
    /\ segmentIds' = RowKeys(BuildSchedules(schResponse))
    /\ schPc' = "done"
    /\ UNCHANGED schResponse
    /\ UNCHANGED exceptSchedule

NextSchedule == RenderSchedule

SpecSchedule == InitSchedule /\ [][NextSchedule]_vars

\* property side
WaitingSeconds(activity) ==
    IF activity.type = "Service"
    THEN DecimalValue(SubSeq(activity.waiting_duration, 3,
                             Len(activity.waiting_duration) - 1))
    ELSE 0
Waits(activity) == activity.type = "Service" /\ WaitingSeconds(activity) > 0
WaitingCount(route) ==
    Cardinality({k \in 1..Len(route.activities) : Waits(route.activities[k])})
\* position of the activity segment of the k-th activity
ActivityPos(route, k) ==
    2 * (k - 1) + Cardinality({j \in 1..k : Waits(route.activities[j])}) + 1

SegmentsAsClaimed(route, segments) ==
    LET A == Len(route.activities)
    IN /\ Len(segments) = 2 * A - 1 + WaitingCount(route)
       /\ \A k \in 1..A :
            LET a == route.activities[k]
                p == ActivityPos(route, k)
            IN /\ segments[p].type = "activity"
               /\ segments[p].activity = a
               /\ segments[p].start.instant = a.arrival_time + WaitingSeconds(a)
               /\ segments[p].end.instant = a.departure_time
               /\ Waits(a) =>
                    /\ segments[p - 1].type = "waiting"
                    /\ segments[p - 1].activity = a
                    /\ segments[p - 1].start.instant = a.arrival_time
                    /\ segments[p - 1].end.instant
                          = a.arrival_time + WaitingSeconds(a)
               /\ k < A =>
                    /\ segments[p + 1].type = "driving"
                    /\ segments[p + 1].start.instant = a.departure_time
                    /\ segments[p + 1].end.instant
                          = route.activities[k + 1].arrival_time
       /\ \A i \in 1..(Len(segments) - 1) :
            segments[i].end = segments[i + 1].start

\* C17: for every route (of at least one activity) the segments are, in
\* activity order, a waiting segment [arrival, arrival+waiting] exactly for a
\* Service with waiting > 0, the activity segment [arrival+waiting,
\* departure], and a driving segment [departure, next arrival] after every
\* activity but the last: 2A-1 segments plus one per waiting Service, each
\* starting where the previous one ends.
C17_RouteSegments ==
    schPc = "done" =>
        /\ Len(schedules) = Len(schResponse.routes)
        /\ \A r \in 1..Len(schedules) :
              /\ schedules[r].index = r - 1
              /\ schedules[r].route = schResponse.routes[r]
              /\ SegmentsAsClaimed(schResponse.routes[r], schedules[r].segments)

\* a route Start, waiting Service, End gave six segments
C17_Witness ==
    /\ schPc = "done"
    /\ Len(schedules) = 1
    /\ Len(schResponse.routes[1].activities) = 3
    /\ schResponse.routes[1].activities[1].type = "Start"
    /\ schResponse.routes[1].activities[2].type = "Service"
    /\ schResponse.routes[1].activities[2].waiting_duration = <<"P", "T", "2", "S">>
    /\ schResponse.routes[1].activities[3].type = "End"
    /\ Len(schedules[1].segments) = 6
    /\ schedules[1].segments[3].type = "waiting"

\* ======================================================================
\* VehicleRoutingScreen: hiddenRoutes
\* (routes/job/route.tsx, routes/vehicle-routing/route.tsx)
\* ======================================================================

RouteIndices == 0..(MaxShownRoutes - 1)

\* solution?.routes.length ?? 0
routesLength(solution) == IF solution.nil THEN 0 ELSE solution.routes

\* the updater of toggleRoute: a copy of prev with route deleted when it has
\* it, added otherwise
toggled_AddOnly(prev, route) == prev \cup {route}
toggled(prev, route) ==
    IF route \in prev THEN prev \ {route} ELSE prev \cup {route}

\* new Set(Array.from({length}, (_, i) => i).filter((i) => i !== route))
others_KeepsRoute(length, route) == 0..(length - 1)
others(length, route) == {i \in 0..(length - 1) : i # route}

RouteCall(op, route, newHidden) ==
    /\ hrCount < MaxRouteCalls
    /\ hiddenRoutes' = newHidden
    /\ hrLast' = [op |-> op, route |-> route]
    /\ hrBefore' = hiddenRoutes
    /\ hrCount' = hrCount + 1
    /\ UNCHANGED ctxSolution
    /\ UNCHANGED exceptHidden

\* toggleRoute(route): setHiddenRoutes((prev) => ...)
toggleRoute(route) == RouteCall("toggleRoute", route, toggled(hiddenRoutes, route))

\* hideOtherRoutes(route), with the solution of the current response
hideOtherRoutes(route) ==
    RouteCall("hideOtherRoutes", route, others(routesLength(ctxSolution), route))

\* showAllRoutes(): setHiddenRoutes(new Set())
showAllRoutes == RouteCall("showAllRoutes", 0, {})

\* a poll response with another solution arrives
NewSolution(sol) ==
    /\ sol # ctxSolution
    /\ ctxSolution' = sol
    /\ UNCHANGED <<hiddenRoutes, hrLast, hrBefore, hrCount>>
    /\ UNCHANGED exceptHidden

ShownSolutions ==
    {NoSolution} \cup {[nil |-> FALSE, routes |-> n] : n \in 0..MaxShownRoutes}

InitHidden ==
    /\ IdlePoll /\ IdleFetch /\ IdleStop /\ IdleGeo /\ IdleGet
    /\ IdleHome /\ IdleScreen /\ IdleBench /\ IdleProblem /\ IdleSchedule /\ IdleZoom /\ IdleScript /\ IdlePanel /\ IdleMapbox
    /\ hiddenRoutes = {}
    /\ ctxSolution = NoSolution
    /\ hrLast = NoRouteCall
    /\ hrBefore = {}
    /\ hrCount = 0

NextHidden ==
    \/ \E route \in RouteIndices : toggleRoute(route)
    \/ \E route \in RouteIndices : hideOtherRoutes(route)
    \/ showAllRoutes
    \/ \E sol \in ShownSolutions : NewSolution(sol)

SpecHidden == InitHidden /\ [][NextHidden]_vars

\* the step is a call of op
Calls(op) == hrCount' # hrCount /\ hrLast'.op = op

\* C18: toggleRoute(r) flips the membership of r in hiddenRoutes and leaves
\* the membership of every other route index unchanged; toggleRoute(r)
\* straight after toggleRoute(r) restores the set held before the first.
C18_ToggleRoute ==
    [][ Calls("toggleRoute") =>
          LET r == hrLast'.route
          IN /\ (r \in hiddenRoutes') <=> (r \notin hiddenRoutes)
             /\ \A i \in RouteIndices \ {r} :
                   (i \in hiddenRoutes') <=> (i \in hiddenRoutes)
             /\ hiddenRoutes' \subseteq hiddenRoutes \cup {r}
             /\ hrLast = [op |-> "toggleRoute", route |-> r] =>
                   hiddenRoutes' = hrBefore ]_vars

\* route 1 was toggled twice in a row on a set holding route 2
C18_Witness ==
    /\ hrCount = 3
    /\ hrLast = [op |-> "toggleRoute", route |-> 1]
    /\ hrBefore = {1, 2}
    /\ hiddenRoutes = {2}

\* C19: hideOtherRoutes(r) sets hiddenRoutes to the route indices 0..R-1 of
\* the current solution's R routes without r, whatever it held before (the
\* empty set without a solution); showAllRoutes sets it to the empty set.
C19_HideOthersShowAll ==
    [][ /\ Calls("hideOtherRoutes") =>
            LET R == IF ctxSolution.nil THEN 0 ELSE ctxSolution.routes
            IN /\ \A i \in 0..MaxShownRoutes :
                    (i \in hiddenRoutes') <=> (i < R /\ i # hrLast'.route)
               /\ hiddenRoutes' \subseteq 0..MaxShownRoutes
        /\ Calls("showAllRoutes") => hiddenRoutes' = {} ]_vars

\* with three routes and route 0 hidden, the others of route 1 were hidden
C19_Witness ==
    /\ ctxSolution = [nil |-> FALSE, routes |-> 3]
    /\ hrLast = [op |-> "hideOtherRoutes", route |-> 1]
    /\ hrBefore = {1}
    /\ hiddenRoutes = {0, 2}

\* ======================================================================
\* Schedule: zoom (components/Schedule, src/unnamed/part_039)
\* ======================================================================
\* Zoom values are counted in quarters of a pixel per minute, so that a
\* step of 0.25 x baseZoom is a whole number when baseZoom is a whole number
\* of pixels per minute.

Max(a, b) == IF a >= b THEN a ELSE b
Min(a, b) == IF a <= b THEN a ELSE b

\* const effectiveZoom = zoomLevel ?? baseZoom
effectiveZoom == IF zoomLevel = NullZoom THEN baseZoom ELSE zoomLevel

\* clampZoom(z) = Math.max(baseZoom, Math.min(baseZoom * 4, z)), the callback
\* of a render whose baseZoom is b
clampZoomOf(b, z) == Max(b, Min(b * 4, z))
clampZoom(z) == clampZoomOf(baseZoom, z)

\* p || baseZoom: null and 0 both give baseZoom
OrBaseZoomOf(b, p) == IF p = NullZoom \/ p = 0 THEN b ELSE p
OrBaseZoom(p) == OrBaseZoomOf(baseZoom, p)

\* the two updates of the zoomLevel state:
\*   calc():        (prev) => (prev === null ? z : Math.max(z, prev))
\*   handleZoom(d): (p) => clampZoom((p || baseZoom) + d * baseZoom * 0.25),
\*                  with the baseZoom and the clampZoom of the render the
\*                  clicked button belongs to
CalcUpdate(z) == [kind |-> "calc", z |-> z, d |-> 0]
ZoomUpdate(d, b) == [kind |-> "zoom", z |-> b, d |-> d]
Updated(u, p) ==
    IF u.kind = "calc"
    THEN IF p = NullZoom THEN u.z ELSE Max(u.z, p)
    ELSE clampZoomOf(u.z, OrBaseZoomOf(u.z, p) + u.d * (u.z \div 4))

\* the zoomLevel the updates of the sequence q give, applied in order to p
RECURSIVE Replayed(_, _)
Replayed(q, p) == IF q = <<>> THEN p ELSE Replayed(Tail(q), Updated(Head(q), p))

\* the baseZoom the updates of the sequence q give: setBaseZoom(z) of its
\* last calc()
RECURSIVE LastBase(_, _)
LastBase(q, b) ==
    IF q = <<>> THEN b
    ELSE LastBase(Tail(q), IF Head(q).kind = "calc" THEN Head(q).z ELSE b)

\* An update made in an event handler (a click, a resize) is rendered at
\* once.  While a calc() of the effect is queued, that render leaves the
\* queued update out, and React keeps the update of the event behind it in
\* the queue: the later render of the queue applies all of them in order.
\* The model keeps up to MaxQueuedUpdates updates in the queue.
Kept(u) ==
    IF zqueue = <<>>
    THEN zqueue' = <<>>
    ELSE /\ Len(zqueue) < MaxQueuedUpdates
         /\ zqueue' = Append(zqueue, u)

\* handleZoom(d): a click on a zoom button,
\* setZoomLevel((p) => clampZoom((p || baseZoom) + d * baseZoom * 0.25))
handleZoom(d) ==
    /\ zoomLevel' = Updated(ZoomUpdate(d, baseZoom), zoomLevel)
    /\ baseZoom' = baseZoom
    /\ Kept(ZoomUpdate(d, baseZoom))
    /\ UNCHANGED <<zbase, zlistening>>
    /\ UNCHANGED exceptZoom

\* calc() as the listener of a window resize, with z = available / minutes:
\* setBaseZoom(z); setZoomLevel((prev) => prev === null ? z : Math.max(z, prev)),
\* rendered at once
calc(z) ==
    /\ zlistening
    /\ baseZoom' = z
    /\ zoomLevel' = Updated(CalcUpdate(z), zoomLevel)
    /\ Kept(CalcUpdate(z))
    /\ UNCHANGED <<zbase, zlistening>>
    /\ UNCHANGED exceptZoom

\* the effect on [startMinutes, endMinutes] runs (after the mount, and when
\* the schedules change): calc(), whose two updates are queued and rendered
\* later, and window.addEventListener('resize', calc)
EffectCalc(z) ==
    /\ Len(zqueue) < MaxQueuedUpdates
    /\ zqueue' = Append(zqueue, CalcUpdate(z))
    /\ zbase' = IF zqueue = <<>> THEN zoomLevel ELSE zbase
    /\ zlistening' = TRUE
    /\ UNCHANGED <<zoomLevel, baseZoom>>
    /\ UNCHANGED exceptZoom

\* the effect runs with no scroll container or with endMinutes = startMinutes:
\* calc() returns before its updates
EffectNoCalc ==
    /\ zlistening' = TRUE
    /\ UNCHANGED <<zoomLevel, baseZoom, zqueue, zbase>>
    /\ UNCHANGED exceptZoom

\* React renders the queued updates
RenderZoom ==
    /\ zqueue # <<>>
    /\ zoomLevel' = Replayed(zqueue, zbase)
    /\ baseZoom' = LastBase(zqueue, baseZoom)
    /\ zqueue' = <<>>
    /\ zbase' = NullZoom
    /\ UNCHANGED zlistening
    /\ UNCHANGED exceptZoom

\* the zoom a calc() can compute: a whole number of pixels per minute
BaseZooms == {4 * k : k \in 1..MaxBaseZoom}

InitZoom ==
    /\ IdlePoll /\ IdleFetch /\ IdleStop /\ IdleGeo /\ IdleGet
    /\ IdleHome /\ IdleScreen /\ IdleBench /\ IdleProblem /\ IdleSchedule /\ IdleScript /\ IdlePanel /\ IdleMapbox
    /\ IdleHidden
    /\ zoomLevel = NullZoom
    /\ baseZoom = 12
    /\ zqueue = <<>>
    /\ zbase = NullZoom
    /\ zlistening = FALSE

NextZoom ==
    \/ \E d \in {1, -1} : handleZoom(d)
    \/ \E z \in BaseZooms : calc(z)
    \/ \E z \in BaseZooms : EffectCalc(z)
    \/ EffectNoCalc
    \/ RenderZoom

SpecZoom == InitZoom /\ [][NextZoom]_vars

\* C20: the effective zoom always lies between baseZoom and 4 x baseZoom.
C20_ZoomWithinBounds ==
    /\ effectiveZoom >= baseZoom
    /\ effectiveZoom <= 4 * baseZoom

\* ======================================================================
\* The effect-based poller when jobId changes
\* ======================================================================

\* C22: whenever jobId changes to a new non-null id, the effect-based poller
\* eventually issues at least one poll request for the new id, whatever status
\* was last received for the previous job, including Completed (the claim is
\* about the hook while it stays mounted on that id; behaviours that used up
\* the MaxPolls requests of the model are left out).  An id is new when the
\* response held is not a response of that job.
C22_PollsNewJob ==
    \A j \in Jobs :
        (hook = "effect" /\ mounted /\ jobId = j /\ ~polledNew /\ data.job # j)
            ~> (polledNew \/ jobId # j \/ ~mounted \/ polls = MaxPolls)

\* C23: the response the effect-based poller holds belongs to the current
\* jobId: a step that writes the solution/response state writes the response
\* of a request issued for the jobId of that moment, never the response of a
\* request issued for an earlier job id.
C23_NoStaleResponse ==
    [][hook = "effect" /\ data' # data => data'.job = jobId']_vars

\* ======================================================================
\* Overlapping calls of the function useFetch returns
\* ======================================================================

\* C24: when several calls of the function returned by useFetch overlap, data
\* ends up holding the response of the most recently issued request, whatever
\* the order in which the responses arrive: once every call has settled and
\* the last issued call got a response it stored, data is that response.
C24_LatestRequestWins ==
    (/\ fcalls = {}
     /\ \E r \in freturned : r.call = fnext /\ r.ok)
        => fdata.call = fnext

\* C25: the loading flag of useFetch is true exactly while at least one
\* request issued through the hook is in flight; it is never false while
\* another request of the same hook is still pending.
C25_LoadingWhileInFlight ==
    loading <=> fcalls # {}

\* ======================================================================
\* The screen's routes panel, activities panel and hidden routes together
\* (job/route.tsx, vehicle-routing/route.tsx, RoutesPanel, ActivitiesPanel)
\* ======================================================================

\* selectedRouteIndex !== null ? solution?.routes[selectedRouteIndex] : null
\* (a route is named by its position in the solution's routes)
selectedRoute_AnyIndex(solution, index) ==
    IF index # NullIndex /\ ~solution.nil
    THEN [truthy |-> TRUE, route |-> index]
    ELSE [truthy |-> FALSE, route |-> NullIndex]
selectedRoute(solution, index) ==
    IF index # NullIndex /\ ~solution.nil /\ index >= 0 /\ index < solution.routes
    THEN [truthy |-> TRUE, route |-> index]
    ELSE [truthy |-> FALSE, route |-> NullIndex]

\* {selectedRoute && selectedRouteIndex !== null && (<ActivitiesPanel .../>)}
PanelShown ==
    selectedRoute(ctxSolution, selectedRouteIndex).truthy
        /\ selectedRouteIndex # NullIndex

\* RouteCard onClick: onRouteSelect(selectedRouteIndex === index ? null : index)
CardTarget(selected, index) == IF selected = index THEN NullIndex ELSE index

\* a click on the card of route index in the routes panel, which lists the
\* routes of the solution; onRouteSelect is setSelectedRouteIndex
RouteCardClick(index) ==
    /\ ~ctxSolution.nil
    /\ index \in 0..(ctxSolution.routes - 1)
    /\ clicks < MaxClicks
    /\ selectedRouteIndex' = CardTarget(selectedRouteIndex, index)
    /\ clicked' = index
    /\ clicks' = clicks + 1
    /\ UNCHANGED exceptPanel

\* ActivitiesPanel onClose: setSelectedRouteIndex(null)
onClose ==
    /\ PanelShown
    /\ selectedRouteIndex' = NullIndex
    /\ UNCHANGED <<clicked, clicks>>
    /\ UNCHANGED exceptPanel

\* the buttons of the activities panel, shown for routeIndex = selectedRouteIndex
PanelToggleRoute == PanelShown /\ toggleRoute(selectedRouteIndex)
PanelHideOtherRoutes == PanelShown /\ hideOtherRoutes(selectedRouteIndex)
PanelShowAllRoutes == PanelShown /\ showAllRoutes

InitPanel ==
    /\ IdlePoll /\ IdleFetch /\ IdleStop /\ IdleGeo /\ IdleGet
    /\ IdleHome /\ IdleScreen /\ IdleBench /\ IdleProblem /\ IdleSchedule /\ IdleMapbox
    /\ IdleZoom /\ IdleScript
    /\ hiddenRoutes = {}
    /\ ctxSolution = NoSolution
    /\ hrLast = NoRouteCall
    /\ hrBefore = {}
    /\ hrCount = 0
    /\ selectedRouteIndex = NullIndex
    /\ clicked = NullIndex
    /\ clicks = 0

NextPanel ==
    \/ \E index \in RouteIndices : RouteCardClick(index)
    \/ onClose
    \/ PanelToggleRoute
    \/ PanelHideOtherRoutes
    \/ PanelShowAllRoutes
    \/ \E sol \in ShownSolutions : NewSolution(sol)

SpecPanel == InitPanel /\ [][NextPanel]_vars

\* the route indices of the current solution
ExistingRoutes == {i \in 0..MaxShownRoutes : ~ctxSolution.nil /\ i < ctxSolution.routes}

\* C26: hiddenRoutes only ever contains indices of routes that exist in the
\* current solution, after any interleaving of toggleRoute, hideOtherRoutes,
\* showAllRoutes and poll updates that change the number of routes.
C26_HiddenRoutesExist ==
    hiddenRoutes \subseteq ExistingRoutes

\* C28: the activities panel is shown only when selectedRouteIndex is non-null
\* and refers to a route of the current solution (also after a poll update
\* that removed the selected route); a click on the card of the selected
\* route clears the selection, a click on another card replaces it.
C28_ActivitiesPanel ==
    [][ /\ PanelShown' =>
            (selectedRouteIndex' # NullIndex /\ selectedRouteIndex' \in ExistingRoutes')
        /\ clicks' # clicks =>
            IF clicked' = selectedRouteIndex
            THEN selectedRouteIndex' = NullIndex
            ELSE selectedRouteIndex' = clicked' ]_vars

\* route 2 of three was selected, then a poll update left two routes
C28_Witness ==
    /\ selectedRouteIndex = 2
    /\ clicked = 2
    /\ ctxSolution = [nil |-> FALSE, routes |-> 2]
    /\ ~PanelShown

\* ======================================================================
\* Schedule: the keys of the segments of a row
\* ======================================================================

\* C27: within one schedule row the ids computed by getSegmentId are pairwise
\* distinct for the segments RoutingSchedule generates, for every route,
\* including routes with zero-length activities, zero-length driving legs or
\* co-located consecutive stops.
C27_SegmentIdsDistinct ==
    schPc = "done" =>
        \A r \in 1..Len(segmentIds) :
            \A i, j \in 1..Len(segmentIds[r]) :
                i # j => segmentIds[r][i] # segmentIds[r][j]

\* ======================================================================
\* The data-preparation scripts (data/optimizer/transform.js and the
\* reshaping script of src/unnamed/part_000)
\* ======================================================================
\* transform.js reads sample-2.json, whose coordinates are named latitude and
\* longitude; the reshaping script reads data.json, whose service locations
\* are named lon and lat and which already has a locations array.

\* transform.js: the warehouse of the first vehicle, then one location per
\* service, with id = position
transformLocations(sample) ==
    << [id |-> 0, lat |-> sample.vehicles[1].warehouse.latitude,
        lon |-> sample.vehicles[1].warehouse.longitude] >>
      \o [k \in 1..Len(sample.services) |->
            [id |-> (k - 1) + 1, lat |-> sample.services[k].location.latitude,
             lon |-> sample.services[k].location.longitude]]

\* transform.js: every vehicle with external_id index.toString() and
\* depot_location_id 0
transformVehicles(sample) ==
    [k \in 1..Len(sample.vehicles) |->
        [external_id |-> toString(k - 1), depot_location_id |-> 0]]

\* both scripts: location_id: index + 1
ServiceLocationId(index) == index + 1

\* transform.js: the services
transformServices(sample) ==
    [k \in 1..Len(sample.services) |->
        [external_id |-> sample.services[k].id,
         location_id |-> ServiceLocationId(k - 1)]]

\* transform.js, matrix-payload.json:
\* locations.map((location) => [location.lon, location.lat])
matrixPoints(locations) ==
    [k \in 1..Len(locations) |-> <<locations[k].lon, locations[k].lat>>]

\* the reshaping script: locations: [...data.locations, ...locations], the
\* new ones being {lon: service.location.lon, lat: service.location.lat}
reshapeLocations(json) ==
    json.locations
      \o [k \in 1..Len(json.services) |->
            [lon |-> json.services[k].location.lon,
             lat |-> json.services[k].location.lat]]

\* the reshaping script: {...service, location_id: index + 1, location: undefined}
reshapeServices(json) ==
    [k \in 1..Len(json.services) |->
        [id |-> json.services[k].id, location_id |-> ServiceLocationId(k - 1)]]

\* the two files
SamplePoints ==
    {[latitude |-> 50, longitude |-> 4], [latitude |-> 51, longitude |-> 3]}
SampleServices ==
    UNION {{[k \in 1..n |-> [id |-> k, location |-> f[k]]] :
               f \in [1..n -> SamplePoints]} : n \in 1..MaxFixtureServices}
SampleVehicles ==
    UNION {[1..n -> {[warehouse |-> [latitude |-> 49, longitude |-> 2]],
                     [warehouse |-> [latitude |-> 52, longitude |-> 5]]}] :
              n \in 1..2}
DataPoints == {[lat |-> 50, lon |-> 4], [lat |-> 51, lon |-> 3]}
DataServices ==
    UNION {{[k \in 1..n |-> [id |-> k, location |-> f[k]]] :
               f \in [1..n -> DataPoints]} : n \in 1..MaxFixtureServices}
DataLocations ==
    UNION {[1..n -> {[lon |-> 2, lat |-> 49]}] : n \in 0..MaxFixtureLocations}
Fixtures ==
    {[sample |-> [vehicles |-> vs, services |-> ss],
      data |-> [services |-> ds, locations |-> ls]] :
        vs \in SampleVehicles, ss \in SampleServices,
        ds \in DataServices, ls \in DataLocations}

InitScript ==
    /\ IdlePoll /\ IdleFetch /\ IdleStop /\ IdleGeo /\ IdleGet
    /\ IdleHome /\ IdleScreen /\ IdleBench /\ IdleProblem /\ IdleSchedule /\ IdlePanel /\ IdleMapbox
    /\ IdleHidden /\ IdleZoom
    /\ sdata \in Fixtures
    /\ sout = NoScriptOutput
    /\ spc = "input"

\* node transform.js (output.json, matrix-payload.json); node (the reshaping
\* script), each on its own file
RunScripts ==
    /\ spc = "input"
    /\ sout' = [transform |->
                   [locations |-> transformLocations(sdata.sample),
                    vehicles |-> transformVehicles(sdata.sample),
                    services |-> transformServices(sdata.sample),
                    from_points |-> matrixPoints(transformLocations(sdata.sample)),
                    to_points |-> matrixPoints(transformLocations(sdata.sample))],
                reshape |-> [locations |-> reshapeLocations(sdata.data),
                             services |-> reshapeServices(sdata.data)]]
    /\ spc' = "done"
    /\ UNCHANGED sdata
    /\ UNCHANGED exceptScript

NextScript == RunScripts

SpecScript == InitScript /\ [][NextScript]_vars

\* property side: the location at position pos (0-based) of an emitted
\* locations array has the coordinates lat, lon
LocationAtIs(locations, pos, lat, lon) ==
    /\ pos + 1 \in 1..Len(locations)
    /\ locations[pos + 1].lat = lat
    /\ locations[pos + 1].lon = lon

TransformAsClaimed ==
    LET out == sout.transform
        in == sdata.sample
    IN /\ Len(out.services) = Len(in.services)
       /\ \A k \in 1..Len(out.services) :
            /\ out.services[k].location_id = (k - 1) + 1
            /\ LocationAtIs(out.locations, out.services[k].location_id,
                            in.services[k].location.latitude,
                            in.services[k].location.longitude)
       /\ \A p \in 1..Len(out.locations) : out.locations[p].id = p - 1
       /\ out.locations[1].lat = in.vehicles[1].warehouse.latitude
       /\ out.locations[1].lon = in.vehicles[1].warehouse.longitude
       /\ Len(out.vehicles) = Len(in.vehicles)
       /\ \A v \in 1..Len(out.vehicles) : out.vehicles[v].depot_location_id = 0

ReshapeAsClaimed ==
    LET out == sout.reshape
        in == sdata.data
    IN /\ Len(out.services) = Len(in.services)
       /\ \A k \in 1..Len(out.services) :
            /\ out.services[k].location_id = (k - 1) + 1
            /\ LocationAtIs(out.locations, out.services[k].location_id,
                            in.services[k].location.lat,
                            in.services[k].location.lon)

\* C21: in the output of both scripts every service's location_id (index+1)
\* is the position, in the emitted locations, of the location with that
\* service's coordinates; in transform.js locations[k].id = k, location 0 is
\* the first vehicle's warehouse and every vehicle has depot_location_id 0.
C21_ServiceLocationIds ==
    spc = "done" => TransformAsClaimed /\ ReshapeAsClaimed

\* transform.js alone keeps its part
TransformKeepsIds ==
    spc = "done" => TransformAsClaimed

\* ======================================================================
\* useMapboxBounds (hooks/useMapboxBounds.ts)
\* ======================================================================

\* if (coord[k] < min) min = coord[k]
Lower_Keeps(min, c) == min
Lower(min, c) == IF c < min THEN c ELSE min

\* if (coord[k] > max) max = coord[k]
Upper(max, c) == IF c > max THEN c ELSE max

\* for (const coord of coordinates) { ... }, from the i-th coordinate on
RECURSIVE BoundsLoop(_, _, _)
BoundsLoop(coordinates, i, b) ==
    IF i > Len(coordinates) THEN b
    ELSE LET coord == coordinates[i]
         IN BoundsLoop(coordinates, i + 1,
                [minX |-> Lower(b.minX, coord[1]), minY |-> Lower(b.minY, coord[2]),
                 maxX |-> Upper(b.maxX, coord[1]), maxY |-> Upper(b.maxY, coord[2])])

useMapboxBounds(coordinates) ==
    IF Len(coordinates) = 0 THEN Undefined
    ELSE LET b == BoundsLoop(coordinates, 1,
                     [minX |-> coordinates[1][1], minY |-> coordinates[1][2],
                      maxX |-> coordinates[1][1], maxY |-> coordinates[1][2]])
         IN [defined |-> TRUE, box |-> <<<<b.minX, b.minY>>, <<b.maxX, b.maxY>>>>]

\* inputs: [lon, lat] pairs on both sides of zero
Lons == {-2, 0, 3}
Lats == {-1, 1, 4}
CoordinateLists ==
    UNION {[1..n -> Lons \X Lats] : n \in 0..MaxCoordinates}

InitMapbox ==
    /\ IdlePoll /\ IdleFetch /\ IdleStop /\ IdleGeo /\ IdleGet
    /\ IdleHome /\ IdleScreen /\ IdleBench /\ IdleProblem /\ IdleSchedule
    /\ IdleHidden /\ IdleZoom /\ IdleScript /\ IdlePanel
    /\ mcoordinates \in CoordinateLists
    /\ mbounds = Undefined
    /\ mpc = "input"

\* the hook renders: useMemo computes the bounds
RunMapboxBounds ==
    /\ mpc = "input"
    /\ mbounds' = useMapboxBounds(mcoordinates)
    /\ mpc' = "done"
    /\ UNCHANGED mcoordinates
    /\ UNCHANGED exceptMapbox

NextMapbox == RunMapboxBounds

SpecMapbox == InitMapbox /\ [][NextMapbox]_vars

\* C29: useMapboxBounds returns undefined for an empty coordinate list and
\* otherwise the tight bounding box [[minX, minY], [maxX, maxY]]: every input
\* coordinate lies inside the box and each of the four bounds is attained by
\* some input coordinate.
C29_TightBounds ==
    mpc = "done" =>
        IF mcoordinates = <<>>
        THEN mbounds = Undefined
        ELSE /\ mbounds.defined
             /\ Len(mbounds.box) = 2
             /\ LET lo == mbounds.box[1]
                    hi == mbounds.box[2]
                    I == 1..Len(mcoordinates)
                IN /\ \A i \in I :
                        /\ lo[1] <= mcoordinates[i][1] /\ mcoordinates[i][1] <= hi[1]
                        /\ lo[2] <= mcoordinates[i][2] /\ mcoordinates[i][2] <= hi[2]
                   /\ \E i \in I : mcoordinates[i][1] = lo[1]
                   /\ \E i \in I : mcoordinates[i][2] = lo[2]
                   /\ \E i \in I : mcoordinates[i][1] = hi[1]
                   /\ \E i \in I : mcoordinates[i][2] = hi[2]

\* three coordinates whose four bounds come from different coordinates
C29_Witness ==
    /\ mpc = "done"
    /\ mcoordinates = << <<0, 4>>, <<-2, 1>>, <<3, -1>> >>
    /\ mbounds = [defined |-> TRUE, box |-> << <<-2, -1>>, <<3, 4>> >>]

====
